---- MODULE Spec2Model ----
(***************************************************************************)
(* A model of the RescueTime pipeline of victoriano/quantifiedself:        *)
(*   fetch_long_period.py  add_months, generate_date_ranges                *)
(*   config_reader.py      load_config                                     *)
(*   combine_parquet.py    combine_parquet_files, collect_domain_files     *)
(*   main.py               combine_data                                    *)
(* Each part is a state machine over its own variables; the variables of   *)
(* the other parts stay at their idle values under a part's specification. *)
(***************************************************************************)
EXTENDS Integers, Sequences, FiniteSets, TLC

VARIABLES
    \* generate_date_ranges (fetch_long_period.py:25-67)
    start_date,     \* the start_date argument, a "YYYY-MM-DD" string as <<y, m, d>>
    end_date,       \* the end_date argument
    chunk_months,   \* the chunk_months argument
    current,        \* the loop cursor, a datetime [year, month, day]
    date_ranges,    \* the result list of <<chunk_start, chunk_end>> strings
    gpc,            \* "idle", "loop", "returned", "raised", "capped"
    \* load_config (config_reader.py:11-189)
    config_file,    \* what the configuration file holds, as yaml.safe_load parses it
    config,         \* the dictionary yaml.safe_load returned, updated in place
    group_map,      \* name -> index in config.groups of the group object
    lpc,            \* the next step of load_config, "returned" or "exit"
    lerr,           \* the error load_config printed before sys.exit(1)
    \* the file system and the environment of one run
    fs,             \* path -> [table, mtime, kind]: the Parquet files on storage
    dirs,           \* the directories that exist
    clock,          \* the modification time the next written file gets
    env,            \* what fails in this run, and the iteration order of sets
    \* combine_parquet_files (combine_parquet.py:15-94)
    files,          \* the files argument, a list of paths
    output_file,    \* the output_file argument, a path
    all_columns,    \* the column names found by the first pass
    dfs,            \* the dataframes the second pass kept
    total_rows,     \* the rows counted by the second pass
    mi,             \* the index in files of the next file to read
    mpc,            \* "pass1", "pass2", "concat", "returned", "raised"
    combined,       \* the returned pair (combined_df, total_rows)
    \* combine_data (main.py:95-225)
    args,           \* the command line flags skip_subgroups, skip_groups, skip_all
    cstage,         \* "start", "subgroups", "groups", "all", "done", "raised"
    cidx,           \* the position in group_map.items() of the next node
    files_combined, \* the counter of combined input files
    output_files,   \* the list of written output paths
    run,            \* the number of the current run of the combine phase
    log,            \* history: one entry for every node that was aggregated
    \* main (main.py:227-309) and fetch_all_data (main.py:25-93)
    ppc,            \* "off", "load", "fetch", "fetching", "combine", "complete", "exited"
    fidx,           \* the position in domains_to_process of the next domain
    requests,       \* history: the fetch commands that were run
    exit_code       \* the exit status of the process, None while it runs

chunkVars == <<start_date, end_date, chunk_months, current, date_ranges, gpc>>
loadVars == <<config_file, config, group_map, lpc, lerr>>

fsVars == <<fs, dirs, clock, env>>
mergeVars == <<files, output_file, all_columns, dfs, total_rows, mi, mpc, combined>>

combineVars == <<args, cstage, cidx, files_combined, output_files, run, log>>

pipeVars == <<ppc, fidx, requests, exit_code>>

vars == <<chunkVars, loadVars, fsVars, mergeVars, combineVars, pipeVars>>

None == "None"

(***************************************************************************)
(* Bounds of the model.                                                    *)
(***************************************************************************)
BaseYear == 2023        \* first year of the dates drawn as inputs
NumYears == 2           \* end dates are drawn from NumYears years
MaxChunkMonths == 3     \* chunk_months is drawn up to this value
MaxChunks == 20         \* cap of len(date_ranges): the loop may not end
MaxDomains == 1         \* domains of the configurations drawn as inputs
MaxFiles == 2           \* files handed to combine_parquet_files
MaxRawFiles == 1        \* raw per-chunk files of a domain on storage
NumRuns == 2            \* runs of the combine phase over the same raw files
MaxAddedMonths == 14    \* add_months is examined for 1..MaxAddedMonths months

(***************************************************************************)
(* Calendar arithmetic: Python's calendar and datetime.                    *)
(***************************************************************************)
MINYEAR == 1
MAXYEAR == 9999

\* the outcome of a datetime computation that raises ValueError
ValueError == [year |-> 0 - 1, month |-> 0, day |-> 0]

\* a datetime variable that is not yet assigned
NoDate == [year |-> 0, month |-> 0, day |-> 0]

IsLeap(y) == (y % 4 = 0) /\ ((y % 100 # 0) \/ (y % 400 = 0))

\* calendar.monthrange(year, month)[1]
DaysInMonth(y, m) ==
    IF m = 2 THEN (IF IsLeap(y) THEN 29 ELSE 28)
    ELSE IF m \in {4, 6, 9, 11} THEN 30 ELSE 31

\* datetime(year, month, day): the constructor raises ValueError out of range
MkDate(y, m, d) ==
    IF y < MINYEAR \/ y > MAXYEAR \/ m < 1 \/ m > 12 \/ d < 1 \/ d > DaysInMonth(y, m)
    THEN ValueError
    ELSE [year |-> y, month |-> m, day |-> d]

\* datetime.strptime(s, "%Y-%m-%d") of the string with fields <<y, m, d>>
Strptime(s) == MkDate(s[1], s[2], s[3])

\* dt.strftime("%Y-%m-%d")
Strftime(dt) == <<dt.year, dt.month, dt.day>>

\* a < b on datetimes
DateLT(a, b) ==
    \/ a.year < b.year
    \/ a.year = b.year /\ a.month < b.month
    \/ a.year = b.year /\ a.month = b.month /\ a.day < b.day

DateLE(a, b) == a = b \/ DateLT(a, b)

\* dt + timedelta(days=1)
PlusOneDay(dt) ==
    IF dt.day < DaysInMonth(dt.year, dt.month)
    THEN MkDate(dt.year, dt.month, dt.day + 1)
    ELSE IF dt.month < 12 THEN MkDate(dt.year, dt.month + 1, 1)
    ELSE MkDate(dt.year + 1, 1, 1)

\* datetime.toordinal(): days since 0001-01-01, that day being 1
DaysBeforeMonth(y, m) ==
    LET cum == <<0, 31, 59, 90, 120, 151, 181, 212, 243, 273, 304, 334>>
    IN cum[m] + (IF m > 2 /\ IsLeap(y) THEN 1 ELSE 0)

ToOrdinal(dt) ==
    LET y1 == dt.year - 1
    IN y1 * 365 + (y1 \div 4) - (y1 \div 100) + (y1 \div 400)
       + DaysBeforeMonth(dt.year, dt.month) + dt.day

Min2(a, b) == IF a <= b THEN a ELSE b

(***************************************************************************)
(* fetch_long_period.py                                                    *)
(***************************************************************************)
\* add_months without the clamp of the day to the length of the month
add_months_NoClamp(sourcedate, months) ==
    LET month0 == sourcedate.month - 1 + months
        year   == sourcedate.year + (month0 \div 12)
        month  == (month0 % 12) + 1
    IN IF year < MINYEAR \/ year > MAXYEAR
       THEN ValueError
       ELSE MkDate(year, month, sourcedate.day)

\* add_months(sourcedate, months); // and % are Python's floored operators
add_months(sourcedate, months) ==
    LET month0 == sourcedate.month - 1 + months
        year   == sourcedate.year + (month0 \div 12)
        month  == (month0 % 12) + 1
    IN IF year < MINYEAR \/ year > MAXYEAR
       THEN ValueError   \* calendar.monthrange / datetime raise
       ELSE MkDate(year, month, Min2(sourcedate.day, DaysInMonth(year, month)))

\* generate_date_ranges, lines 37-43: parse the dates, empty list, cursor at start
GenStart ==
    /\ gpc = "idle"
    /\ IF Strptime(start_date) = ValueError \/ Strptime(end_date) = ValueError
       THEN /\ gpc' = "raised"
            /\ UNCHANGED <<current, date_ranges>>
       ELSE /\ current' = Strptime(start_date)
            /\ date_ranges' = <<>>
            /\ gpc' = "loop"
    /\ UNCHANGED <<start_date, end_date, chunk_months>>
    /\ UNCHANGED <<loadVars, fsVars, mergeVars, combineVars, pipeVars>>

\* a cursor that goes a month back and is not corrected
NextCurrent_Back(chunk_end) == add_months(chunk_end, 0 - 1)

\* a cursor that stays on the day the chunk ended
NextCurrent_SameDay(chunk_end) == chunk_end

\* the cursor after one iteration of the loop, lines 60-65
NextCurrent(chunk_end) ==
    LET c == add_months(chunk_end, 1)
    IN IF c = ValueError THEN c
       ELSE IF DateLE(c, chunk_end) THEN PlusOneDay(chunk_end) ELSE c

\* the chunk end that is not cut at the overall end date
ChunkEnd_NoCap(cur, end, months) == add_months(cur, months)

\* the chunk end of one iteration, lines 47-52
ChunkEnd(cur, end, months) ==
    LET e == add_months(cur, months)
    IN IF e = ValueError THEN e
       ELSE IF DateLT(end, e) THEN end ELSE e

\* one iteration of `while current < end`, lines 46-65
GenIterate ==
    /\ gpc = "loop"
    /\ DateLT(current, Strptime(end_date))
    /\ Len(date_ranges) < MaxChunks
    /\ LET chunk_end == ChunkEnd(current, Strptime(end_date), chunk_months)
       IN IF chunk_end = ValueError
          THEN /\ gpc' = "raised"
               /\ UNCHANGED <<current, date_ranges>>
          ELSE /\ date_ranges' = Append(date_ranges,
                                        <<Strftime(current), Strftime(chunk_end)>>)
               /\ IF NextCurrent(chunk_end) = ValueError
                  THEN gpc' = "raised" /\ UNCHANGED current
                  ELSE gpc' = "loop" /\ current' = NextCurrent(chunk_end)
    /\ UNCHANGED <<start_date, end_date, chunk_months>>
    /\ UNCHANGED <<loadVars, fsVars, mergeVars, combineVars, pipeVars>>

\* the loop condition fails: return date_ranges, line 67
GenReturn ==
    /\ gpc = "loop"
    /\ ~DateLT(current, Strptime(end_date))
    /\ gpc' = "returned"
    /\ UNCHANGED <<start_date, end_date, chunk_months, current, date_ranges>>
    /\ UNCHANGED <<loadVars, fsVars, mergeVars, combineVars, pipeVars>>

\* the model stops following a loop that has emitted MaxChunks chunks
GenCap ==
    /\ gpc = "loop"
    /\ DateLT(current, Strptime(end_date))
    /\ Len(date_ranges) >= MaxChunks
    /\ gpc' = "capped"
    /\ UNCHANGED <<start_date, end_date, chunk_months, current, date_ranges>>
    /\ UNCHANGED <<loadVars, fsVars, mergeVars, combineVars, pipeVars>>

(***************************************************************************)
(* config_reader.py: load_config.  Dictionaries are functions on strings;  *)
(* `k in d` is k \in DOMAIN d.  The group objects live in config.groups    *)
(* and group_map holds references to them (their index in that list), as   *)
(* the Python dictionary holds the same objects as the list.               *)
(***************************************************************************)
Has(d, k) == k \in DOMAIN d

\* d[k] = v
Put(d, k, v) == (k :> v) @@ d

\* the state of a call of load_config
LoadState(c, gm, pc, err) == [config |-> c, group_map |-> gm, pc |-> pc, err |-> err]

\* print an error and sys.exit(1)
Exit(L, msg) == [L EXCEPT !.pc = "exit", !.err = msg]

EmptyMap == [n \in {} |-> 0]

\* a configuration file that does not exist or is not YAML
NoFile == [unreadable |-> TRUE]

\* lines 21-33: the file exists and loads
StepOpen(L, file) ==
    IF file = NoFile
    THEN Exit(L, "configuration file not found or not loadable")
    ELSE [L EXCEPT !.pc = "sections", !.config = file]

\* lines 35-40: the required sections
StepSections(L) ==
    IF \E section \in {"dates", "domains", "groups"} : ~Has(L.config, section)
    THEN Exit(L, "required section not found")
    ELSE [L EXCEPT !.pc = "dates"]

\* lines 42-53: both dates are present and parse as YYYY-MM-DD
StepDates(L) ==
    LET dates == L.config.dates
    IN IF ~Has(dates, "start_date") \/ ~Has(dates, "end_date")
       THEN Exit(L, "missing start_date or end_date")
       ELSE IF Strptime(dates.start_date) = ValueError
               \/ Strptime(dates.end_date) = ValueError
       THEN Exit(L, "dates must be in YYYY-MM-DD format")
       ELSE [L EXCEPT !.pc = "domains"]

\* lines 55-66: at least one domain, each with a name and a group
StepDomains(L) ==
    LET domains == L.config.domains
    IN IF Len(domains) = 0
       THEN Exit(L, "at least one domain must be specified")
       ELSE IF \E i \in 1..Len(domains) :
                  ~Has(domains[i], "name") \/ ~Has(domains[i], "group")
       THEN Exit(L, "domain must have name and group")
       ELSE [L EXCEPT !.pc = "groups"]

\* lines 68-86: at least one group, each with name, output_dir and output_file;
\* group_map[name] is the last group of that name
StepGroups(L) ==
    LET groups == L.config.groups
    IN IF Len(groups) = 0
       THEN Exit(L, "at least one group must be specified")
       ELSE IF \E i \in 1..Len(groups) :
                  \/ ~Has(groups[i], "name")
                  \/ ~Has(groups[i], "output_dir")
                  \/ ~Has(groups[i], "output_file")
       THEN Exit(L, "group must have name, output_dir and output_file")
       ELSE [L EXCEPT !.pc = "parents",
                      !.group_map =
                          [n \in {groups[i].name : i \in 1..Len(groups)} |->
                              CHOOSE i \in 1..Len(groups) :
                                  /\ groups[i].name = n
                                  /\ \A j \in (i + 1)..Len(groups) : groups[j].name # n]]

\* a parent loop that knows only the groups declared before the one it checks
ParentStep_DeclaredBefore(L, i) ==
    LET groups == L.config.groups
        group == groups[i]
    IN IF Has(group, "parent")
       THEN IF group.parent \notin {groups[j].name : j \in 1..(i - 1)}
            THEN Exit(L, "unknown parent group")
            ELSE LET marked == [groups EXCEPT ![i] = Put(group, "is_subgroup", TRUE)]
                     p == L.group_map[group.parent]
                     subs == IF Has(marked[p], "subgroups")
                             THEN marked[p].subgroups ELSE <<>>
                 IN [L EXCEPT !.config.groups =
                        [marked EXCEPT ![p] =
                            Put(marked[p], "subgroups", Append(subs, group.name))]]
       ELSE [L EXCEPT !.config.groups =
                [groups EXCEPT ![i] =
                    Put(Put(group, "is_subgroup", FALSE), "subgroups", <<>>)]]

\* lines 90-104: the body of the parent loop for the group at index i
ParentStep(L, i) ==
    LET groups == L.config.groups
        group == groups[i]
    IN IF Has(group, "parent")
       THEN IF group.parent \notin DOMAIN L.group_map
            THEN Exit(L, "unknown parent group")
            ELSE LET marked == [groups EXCEPT ![i] = Put(group, "is_subgroup", TRUE)]
                     p == L.group_map[group.parent]
                     subs == IF Has(marked[p], "subgroups")
                             THEN marked[p].subgroups ELSE <<>>
                 IN [L EXCEPT !.config.groups =
                        [marked EXCEPT ![p] =
                            Put(marked[p], "subgroups", Append(subs, group.name))]]
       ELSE [L EXCEPT !.config.groups =
                [groups EXCEPT ![i] =
                    Put(Put(group, "is_subgroup", FALSE), "subgroups", <<>>)]]

RECURSIVE ParentLoop(_, _)
ParentLoop(L, i) ==
    IF L.pc = "exit" \/ i > Len(L.config.groups) THEN L
    ELSE ParentLoop(ParentStep(L, i), i + 1)

\* lines 88-104: the parent loop over config.groups
StepParents(L) ==
    LET R == ParentLoop(L, 1)
    IN IF R.pc = "exit" THEN R ELSE [R EXCEPT !.pc = "domain_refs"]

\* DomainRefError without the comparison of the subgroup's parent (line 118)
DomainRefError_AnyParent(L, domain) ==
    IF domain.group \notin DOMAIN L.group_map
    THEN "unknown group"
    ELSE IF ~Has(domain, "subgroup") THEN None
    ELSE IF domain.subgroup \notin DOMAIN L.group_map
    THEN "unknown subgroup"
    ELSE LET sub == L.config.groups[L.group_map[domain.subgroup]]
         IN IF ~Has(sub, "parent")
            THEN "subgroup is not a child of group"
            ELSE None

\* lines 108-120: the error of one domain's references, or None
DomainRefError(L, domain) ==
    IF domain.group \notin DOMAIN L.group_map
    THEN "unknown group"
    ELSE IF ~Has(domain, "subgroup") THEN None
    ELSE IF domain.subgroup \notin DOMAIN L.group_map
    THEN "unknown subgroup"
    ELSE LET sub == L.config.groups[L.group_map[domain.subgroup]]
         IN IF ~Has(sub, "parent") \/ sub.parent # domain.group
            THEN "subgroup is not a child of group"
            ELSE None

\* lines 106-120: every domain's group and subgroup exist and fit
StepDomainRefs(L) ==
    LET domains == L.config.domains
        bad == {i \in 1..Len(domains) : DomainRefError(L, domains[i]) # None}
    IN IF bad # {}
       THEN Exit(L, DomainRefError(L, domains[CHOOSE i \in bad : \A j \in bad : i <= j]))
       ELSE [L EXCEPT !.pc = "inherit"]

\* Inherit taking the group's output location also for a domain in a subgroup
Inherit_GroupOnly(L, domain) ==
    LET g == L.group_map[domain.group]
        d1 == Put(domain, "group_config", g)
        d2 == IF Has(domain, "subgroup")
              THEN Put(d1, "subgroup_config", L.group_map[domain.subgroup]) ELSE d1
    IN Put(Put(d2, "output_dir", L.config.groups[g].output_dir),
           "output_file", L.config.groups[g].output_file)

\* lines 124-136: one domain with its group objects and its output location
Inherit(L, domain) ==
    LET g == L.group_map[domain.group]
        d1 == Put(domain, "group_config", g)
    IN IF Has(domain, "subgroup")
       THEN LET sg == L.group_map[domain.subgroup]
            IN Put(Put(Put(d1, "subgroup_config", sg),
                       "output_dir", L.config.groups[sg].output_dir),
                   "output_file", L.config.groups[sg].output_file)
       ELSE Put(Put(d1, "output_dir", L.config.groups[g].output_dir),
                "output_file", L.config.groups[g].output_file)

\* lines 122-136
StepInherit(L) ==
    [L EXCEPT !.pc = "settings",
              !.config.domains =
                  [i \in 1..Len(L.config.domains) |-> Inherit(L, L.config.domains[i])]]

default_settings ==
    [chunk_months |-> 3, detailed_data |-> TRUE,
     combine_all |-> TRUE, combine_by_group |-> TRUE]

\* a merge in which the defaults replace the user's values
StepSettings_DefaultsWin(L) ==
    LET given == IF Has(L.config, "settings") THEN L.config.settings ELSE EmptyMap
    IN [L EXCEPT !.pc = "all",
                 !.config = Put(L.config, "settings",
                     [key \in DOMAIN given \cup DOMAIN default_settings |->
                         IF key \in DOMAIN default_settings THEN default_settings[key]
                         ELSE given[key]])]

\* lines 138-151: the keys the user left out take their defaults
StepSettings(L) ==
    LET given == IF Has(L.config, "settings") THEN L.config.settings ELSE EmptyMap
    IN [L EXCEPT !.pc = "all",
                 !.config = Put(L.config, "settings",
                     [key \in DOMAIN given \cup DOMAIN default_settings |->
                         IF key \in DOMAIN given THEN given[key]
                         ELSE default_settings[key]])]

default_all_group ==
    [name |-> "all", output_dir |-> <<"rescuetime_data">>,
     output_file |-> <<"all", "domains", "history">>,
     is_subgroup |-> FALSE, subgroups |-> <<>>]

\* a step that adds the default 'all' group over a configured one
StepAll_Replace(L) ==
    IF L.config.settings.combine_all = TRUE
    THEN [L EXCEPT !.pc = "index",
                   !.config.groups = Append(L.config.groups, default_all_group),
                   !.group_map = Put(L.group_map, "all", Len(L.config.groups) + 1)]
    ELSE [L EXCEPT !.pc = "index"]

\* lines 153-168: the default 'all' group is added when combine_all needs it
StepAll(L) ==
    IF L.config.settings.combine_all = TRUE /\ "all" \notin DOMAIN L.group_map
    THEN [L EXCEPT !.pc = "index",
                   !.config.groups = Append(L.config.groups, default_all_group),
                   !.group_map = Put(L.group_map, "all", Len(L.config.groups) + 1)]
    ELSE [L EXCEPT !.pc = "index"]

\* a list of members that puts the domain declared last first
Members_NewestFirst(domains, key, name) ==
    LET hits == SelectSeq([i \in 1..Len(domains) |-> i],
                          LAMBDA i : Has(domains[i], key) /\ domains[i][key] = name)
    IN [k \in 1..Len(hits) |-> hits[Len(hits) + 1 - k]]

\* the domains (by index, in configuration order) whose field `key` is `name`
Members(domains, key, name) ==
    SelectSeq([i \in 1..Len(domains) |-> i],
              LAMBDA i : Has(domains[i], key) /\ domains[i][key] = name)

\* lines 167-189: the maps are stored in config and it is returned
StepIndex(L) ==
    LET domains == L.config.domains
        by(key) == [n \in {domains[i][key] : i \in {j \in 1..Len(domains) :
                                                        Has(domains[j], key)}} |->
                       Members(domains, key, n)]
    IN [L EXCEPT !.pc = "returned",
                 !.config = Put(Put(Put(L.config, "group_map", L.group_map),
                                    "domain_by_group", by("group")),
                                "domain_by_subgroup", by("subgroup"))]

\* the step of load_config at program point pc
LoadStep(L, file) ==
    CASE L.pc = "open"        -> StepOpen(L, file)
      [] L.pc = "sections"    -> StepSections(L)
      [] L.pc = "dates"       -> StepDates(L)
      [] L.pc = "domains"     -> StepDomains(L)
      [] L.pc = "groups"      -> StepGroups(L)
      [] L.pc = "parents"     -> StepParents(L)
      [] L.pc = "domain_refs" -> StepDomainRefs(L)
      [] L.pc = "inherit"     -> StepInherit(L)
      [] L.pc = "settings"    -> StepSettings(L)
      [] L.pc = "all"         -> StepAll(L)
      [] L.pc = "index"       -> StepIndex(L)

RECURSIVE LoadRun(_, _)
LoadRun(L, file) ==
    IF L.pc \in {"returned", "exit"} THEN L ELSE LoadRun(LoadStep(L, file), file)

\* load_config(config_file), run to its end
load_config(file) == LoadRun(LoadState(EmptyMap, EmptyMap, "open", None), file)

\* one step of load_config on the state variables
LoadAct(pc) ==
    /\ lpc = pc
    /\ LET R == LoadStep(LoadState(config, group_map, lpc, lerr), config_file)
       IN /\ config' = R.config
          /\ group_map' = R.group_map
          /\ lpc' = R.pc
          /\ lerr' = R.err
    /\ UNCHANGED <<config_file, chunkVars, fsVars, mergeVars, combineVars, pipeVars>>

LoadOpen == LoadAct("open")
LoadSections == LoadAct("sections")
LoadDates == LoadAct("dates")
LoadDomains == LoadAct("domains")
LoadGroups == LoadAct("groups")
LoadParents == LoadAct("parents")
LoadDomainRefs == LoadAct("domain_refs")
LoadInherit == LoadAct("inherit")
LoadSettings == LoadAct("settings")
LoadAll == LoadAct("all")
LoadIndex == LoadAct("index")

(***************************************************************************)
(* combine_parquet.py: combine_parquet_files.  A dataframe is its list of  *)
(* column names and its list of rows, a row a function from column names   *)
(* to cells.  A path is a directory and a file name; the name is the list  *)
(* of its parts between underscores, the extension .parquet left out.      *)
(***************************************************************************)
DataFrame(columns, rows) == [columns |-> columns, rows |-> rows]

\* set(df.columns)
Cols(df) == {df.columns[i] : i \in 1..Len(df.columns)}

\* pl.lit(value) for a string and for an integer
StrLit(s) == [str |-> s]
IntLit(n) == [int |-> n]

\* "seconds" in col.lower(), for the column names of the model
ContainsSeconds(col) == col \in {"Time Spent (seconds)", "Idle Seconds"}

\* a default that looks for "seconds" in the name as it is spelled
DefaultValue_CaseSensitive(col) ==
    IF col \in {"group", "subgroup"} THEN StrLit("unknown")
    ELSE IF col = "Time Spent (seconds)" \/ col = "Productivity" THEN IntLit(0)
    ELSE IF col = "Number of People" THEN IntLit(1)
    ELSE StrLit("")

\* lines 56-63: the default of a column that a file lacks
DefaultValue(col) ==
    IF col \in {"group", "subgroup"} THEN StrLit("unknown")
    ELSE IF ContainsSeconds(col) \/ col = "Productivity" THEN IntLit(0)
    ELSE IF col = "Number of People" THEN IntLit(1)
    ELSE StrLit("")

\* df.with_columns(pl.lit(v).alias(col)) for a new column: it comes last
WithColumn(df, col, v) ==
    DataFrame(Append(df.columns, col),
              [r \in 1..Len(df.rows) |-> Put(df.rows[r], col, v)])

\* lines 53-63: the loop over all_columns, iterated in the order `todo`
RECURSIVE AddMissing(_, _)
AddMissing(df, todo) ==
    IF todo = <<>> THEN df
    ELSE AddMissing(IF Head(todo) \in Cols(df) THEN df
                    ELSE WithColumn(df, Head(todo), DefaultValue(Head(todo))),
                    Tail(todo))

\* `for col in all_columns`: Python iterates a set in an order of its own
SetIteration(order, set) == SelectSeq(order, LAMBDA col : col \in set)

\* a read that succeeds whenever the file is on storage
Readable_Always(fsys, e, pass, file) == file \in DOMAIN fsys

\* pl.read_parquet(file) succeeds in the given pass
Readable(fsys, e, pass, file) ==
    /\ file \in DOMAIN fsys
    /\ file \notin (IF pass = 1 THEN e.bad1 ELSE e.bad2)

\* lines 38-43: one file of the first pass
Pass1Step(cols, fsys, e, file) ==
    IF Readable(fsys, e, 1, file) THEN cols \cup Cols(fsys[file].table) ELSE cols

\* lines 48-70: one file of the second pass; acc is (dfs, total_rows)
Pass2Step(acc, cols, fsys, e, file) ==
    IF Readable(fsys, e, 2, file)
    THEN LET df == AddMissing(fsys[file].table, SetIteration(e.set_order, cols))
         IN [dfs |-> Append(acc.dfs, df),
             total_rows |-> acc.total_rows + Len(df.rows)]
    ELSE acc

RECURSIVE ConcatRows(_)
ConcatRows(frames) ==
    IF frames = <<>> THEN <<>> ELSE Head(frames).rows \o ConcatRows(Tail(frames))

\* pl.concat(dfs), the vertical strategy: it stacks frames whose column
\* names agree position by position and raises otherwise
CanConcat(frames) == \A i \in 1..Len(frames) : frames[i].columns = frames[1].columns

Concat(frames) == DataFrame(frames[1].columns, ConcatRows(frames))

NoFrame == DataFrame(<<>>, <<>>)

\* the pair combine_parquet_files returns; is_none: combined_df is None
Returned(is_none, df, n) == [is_none |-> is_none, df |-> df, total_rows |-> n]

NotReturned == Returned(TRUE, NoFrame, 0 - 1)

\* combined_df.write_parquet(output_file) after os.makedirs of its directory
WriteParquet(fsys, path, df, mtime) ==
    Put(fsys, path, [table |-> df, mtime |-> mtime, kind |-> "combined"])

\* lines 72-94: after the passes.  The result: what is on storage, the
\* outcome ("returned" or "raised") and the returned pair
Finish(fsys, ds, clk, e, acc, out) ==
    IF acc.dfs = <<>>
    THEN [fs |-> fsys, dirs |-> ds, clock |-> clk, outcome |-> "returned",
          ret |-> Returned(TRUE, NoFrame, 0)]
    ELSE IF ~CanConcat(acc.dfs)
    THEN [fs |-> fsys, dirs |-> ds, clock |-> clk, outcome |-> "raised",
          ret |-> NotReturned]
    ELSE IF ~e.write_ok
    THEN [fs |-> fsys, dirs |-> ds \cup {out.dir}, clock |-> clk,
          outcome |-> "raised", ret |-> NotReturned]
    ELSE [fs |-> WriteParquet(fsys, out, Concat(acc.dfs), clk),
          dirs |-> ds \cup {out.dir}, clock |-> clk + 1, outcome |-> "returned",
          ret |-> Returned(FALSE, Concat(acc.dfs), acc.total_rows)]

RECURSIVE Pass1(_, _, _, _)
Pass1(cols, fsys, e, todo) ==
    IF todo = <<>> THEN cols
    ELSE Pass1(Pass1Step(cols, fsys, e, Head(todo)), fsys, e, Tail(todo))

RECURSIVE Pass2(_, _, _, _, _)
Pass2(acc, cols, fsys, e, todo) ==
    IF todo = <<>> THEN acc
    ELSE Pass2(Pass2Step(acc, cols, fsys, e, Head(todo)), cols, fsys, e, Tail(todo))

\* combine_parquet_files(files, output_file), run to its end
combine_parquet_files(fsys, ds, clk, e, fl, out) ==
    IF fl = <<>>
    THEN [fs |-> fsys, dirs |-> ds, clock |-> clk, outcome |-> "returned",
          ret |-> Returned(TRUE, NoFrame, 0)]
    ELSE Finish(fsys, ds, clk, e,
                Pass2([dfs |-> <<>>, total_rows |-> 0],
                      Pass1({}, fsys, e, fl), fsys, e, fl),
                out)

(***************************************************************************)
(* combine_parquet.py: collect_domain_files.                               *)
(***************************************************************************)
Path(dir, name) == [dir |-> dir, name |-> name]

\* os.path.join(domain.get('output_dir', ''), domain['output_file'])
DomainOutput(domain) ==
    Path(IF Has(domain, "output_dir") THEN domain.output_dir ELSE <<>>,
         domain.output_file)

\* lines 171-176: the previous combined file of one domain is removed
RemoveStep(fsys, e, domain) ==
    IF /\ Has(domain, "output_file")
       /\ DomainOutput(domain) \in DOMAIN fsys
       /\ DomainOutput(domain) \notin e.rm_fail
    THEN [path \in DOMAIN fsys \ {DomainOutput(domain)} |-> fsys[path]]
    ELSE fsys

RECURSIVE RemoveLoop(_, _, _)
RemoveLoop(fsys, e, todo) ==
    IF todo = <<>> THEN fsys
    ELSE RemoveLoop(RemoveStep(fsys, e, Head(todo)), e, Tail(todo))

\* line 191: domain['name'].split('.')[0]
DomainBase(domain) == domain.name[1]

\* line 194: glob.glob(f"{data_dir}/{domain_base}_*.parquet"); the base is one
\* part of a name, so the pattern asks for that first part and one more
Glob(fsys, data_dir, domain_base) ==
    {path \in DOMAIN fsys :
        /\ path.dir = data_dir
        /\ Len(path.name) >= 2
        /\ path.name[1] = domain_base}

\* a sort that puts the file modified first at the head
RECURSIVE SortByMtimeAsc(_, _)
SortByMtimeAsc(fsys, paths) ==
    IF paths = {} THEN <<>>
    ELSE LET oldest == CHOOSE p \in paths : \A q \in paths : fsys[p].mtime <= fsys[q].mtime
         IN <<oldest>> \o SortByMtimeAsc(fsys, paths \ {oldest})

\* line 197: sort(key=os.path.getmtime, reverse=True)
RECURSIVE SortByMtimeDesc(_, _)
SortByMtimeDesc(fsys, paths) ==
    IF paths = {} THEN <<>>
    ELSE LET newest == CHOOSE path \in paths :
                           \A q \in paths : fsys[q].mtime <= fsys[path].mtime
         IN <<newest>> \o SortByMtimeDesc(fsys, paths \ {newest})

\* lines 180-205: the files of one domain
DomainFiles(fsys, ds, domain) ==
    IF domain.output_dir \notin ds THEN <<>>
    ELSE SortByMtimeDesc(fsys, Glob(fsys, domain.output_dir, DomainBase(domain)))

RECURSIVE CollectLoop(_, _, _)
CollectLoop(fsys, ds, todo) ==
    IF todo = <<>> THEN <<>>
    ELSE DomainFiles(fsys, ds, Head(todo)) \o CollectLoop(fsys, ds, Tail(todo))

\* collect_domain_files(domains): what is left on storage, and all_files
\* a collect_domain_files that scans the directories before it removes
collect_domain_files_ScanFirst(fsys, ds, e, domains) ==
    [fs |-> RemoveLoop(fsys, e, domains), all_files |-> CollectLoop(fsys, ds, domains)]

collect_domain_files(fsys, ds, e, domains) ==
    LET cleaned == RemoveLoop(fsys, e, domains)
    IN [fs |-> cleaned, all_files |-> CollectLoop(cleaned, ds, domains)]

(***************************************************************************)
(* main.py: combine_data.                                                  *)
(***************************************************************************)
\* print_data_summary(df, ...) raises: a non-empty frame lacks a column it reads
SummaryRaises(ret) ==
    /\ ~ret.is_none
    /\ ret.df.rows # <<>>
    /\ ~({"Date", "Time Spent (seconds)"} \subseteq Cols(ret.df))

\* the domains (objects) of a list of references to config.domains
DomainObjects(c, refs) == [k \in 1..Len(refs) |-> c.domains[refs[k]]]

\* what one aggregation did: the node, its inputs, its output and the table
LogEntry(r, stage, node, all_files, out, ret) ==
    [run |-> r, stage |-> stage, node |-> node, all_files |-> all_files,
     output |-> out, ret |-> ret]

\* lines 129-148, 167-186, 201-220: collect the domains' files, combine them
\* into the node's output file, count and summarize.  S is the state
\* [fs, dirs, clock, files_combined, output_files, log, raised, found]
Aggregate(S, e, r, stage, node, group, domains) ==
    LET C == collect_domain_files(S.fs, S.dirs, e, domains)
        out == Path(group.output_dir, group.output_file)
        R == combine_parquet_files(C.fs, S.dirs, S.clock, e, C.all_files, out)
    IN IF C.all_files = <<>>
       THEN [S EXCEPT !.fs = C.fs, !.found = FALSE]
       ELSE IF R.outcome = "raised"
       THEN [S EXCEPT !.fs = R.fs, !.dirs = R.dirs, !.raised = TRUE, !.found = TRUE]
       ELSE [S EXCEPT !.fs = R.fs, !.dirs = R.dirs, !.clock = R.clock,
                      !.files_combined = S.files_combined + Len(C.all_files),
                      !.output_files = Append(S.output_files, out),
                      !.log = Append(S.log,
                                     LogEntry(r, stage, node, C.all_files, out, R.ret)),
                      !.raised = SummaryRaises(R.ret),
                      !.found = TRUE]

\* group_map.items(): the names in the order of their insertion
MapItems(c) == [i \in 1..Len(c.groups) |-> c.groups[i].name]

FirstOccurrences(names) ==
    SelectSeq([i \in 1..Len(names) |-> <<i, names[i]>>],
              LAMBDA p : \A j \in 1..(p[1] - 1) : names[j] # p[2])

MapKeys(c) ==
    LET firsts == FirstOccurrences(MapItems(c))
    IN [k \in 1..Len(firsts) |-> firsts[k][2]]

MapValue(c, name) == c.groups[c.group_map[name]]

IsSubgroup(group) == Has(group, "is_subgroup") /\ group.is_subgroup = TRUE

CombineState ==
    [fs |-> fs, dirs |-> dirs, clock |-> clock, files_combined |-> files_combined,
     output_files |-> output_files, log |-> log, raised |-> FALSE, found |-> FALSE]

\* the variables take the state S; an exception ends combine_data
SetCombineState(S, stage, idx) ==
    /\ fs' = S.fs
    /\ dirs' = S.dirs
    /\ clock' = S.clock
    /\ files_combined' = S.files_combined
    /\ output_files' = S.output_files
    /\ log' = S.log
    /\ cstage' = IF S.raised THEN "raised" ELSE stage
    /\ cidx' = idx

\* the stage that follows: lines 113, 151 and 189 decide which stages run
StageAfter(stage) ==
    IF stage = "start" /\ ~args.skip_subgroups THEN "subgroups"
    ELSE IF /\ stage \in {"start", "subgroups"}
            /\ config.settings.combine_by_group = TRUE
            /\ ~args.skip_groups
    THEN "groups"
    ELSE IF /\ stage \in {"start", "subgroups", "groups"}
            /\ config.settings.combine_all = TRUE
            /\ ~args.skip_all
    THEN "all"
    ELSE "done"

\* lines 103-110: combine_data starts
CombineStart ==
    /\ cstage = "start"
    /\ files_combined' = 0
    /\ output_files' = <<>>
    /\ cstage' = StageAfter("start")
    /\ cidx' = 1
    /\ UNCHANGED <<args, run, log, fsVars, chunkVars, loadVars, mergeVars, pipeVars>>

\* line 116: the subgroup stage skips the "all" group and the non-subgroups
SkippedAsSubgroup(group_name, group) == group_name = "all" \/ ~IsSubgroup(group)

\* a group stage that skips the subgroups only
SkippedAsGroup_KeepsAll(group_name, group) == IsSubgroup(group)

\* line 155: the group stage skips the subgroups and the "all" group
SkippedAsGroup(group_name, group) == IsSubgroup(group) \/ group_name = "all"

\* lines 114-148: one iteration of the loop over the subgroups
CombineSubgroup ==
    /\ cstage = "subgroups"
    /\ cidx <= Len(MapKeys(config))
    /\ LET group_name == MapKeys(config)[cidx]
           group == MapValue(config, group_name)
       IN IF \/ SkippedAsSubgroup(group_name, group)
             \/ group_name \notin DOMAIN config.domain_by_subgroup
          THEN SetCombineState(CombineState, "subgroups", cidx + 1)
          ELSE SetCombineState(
                   Aggregate(CombineState, env, run, "subgroups", group_name, group,
                             DomainObjects(config, config.domain_by_subgroup[group_name])),
                   "subgroups", cidx + 1)
    /\ UNCHANGED <<args, run, env, chunkVars, loadVars, mergeVars, pipeVars>>

\* lines 152-186: one iteration of the loop over the main groups
CombineGroup ==
    /\ cstage = "groups"
    /\ cidx <= Len(MapKeys(config))
    /\ LET group_name == MapKeys(config)[cidx]
           group == MapValue(config, group_name)
       IN IF \/ SkippedAsGroup(group_name, group)
             \/ group_name \notin DOMAIN config.domain_by_group
          THEN SetCombineState(CombineState, "groups", cidx + 1)
          ELSE SetCombineState(
                   Aggregate(CombineState, env, run, "groups", group_name, group,
                             DomainObjects(config, config.domain_by_group[group_name])),
                   "groups", cidx + 1)
    /\ UNCHANGED <<args, run, env, chunkVars, loadVars, mergeVars, pipeVars>>

\* the loop of a stage is over: the next stage that is enabled
CombineNextStage ==
    /\ cstage \in {"subgroups", "groups"}
    /\ cidx > Len(MapKeys(config))
    /\ cstage' = StageAfter(cstage)
    /\ cidx' = 1
    /\ UNCHANGED <<args, run, log, files_combined, output_files>>
    /\ UNCHANGED <<fsVars, chunkVars, loadVars, mergeVars, pipeVars>>

\* lines 190-225: all domains together, and the end of combine_data
CombineAll ==
    /\ cstage = "all"
    /\ IF "all" \notin DOMAIN config.group_map
       THEN SetCombineState(CombineState, "done", 1)
       ELSE SetCombineState(
                Aggregate(CombineState, env, run, "all", "all", MapValue(config, "all"),
                          config.domains),
                "done", 1)
    /\ UNCHANGED <<args, run, env, chunkVars, loadVars, mergeVars, pipeVars>>

\* the combine phase is run once more over what is on storage
CombineAgain ==
    /\ cstage = "done"
    /\ run < NumRuns
    /\ run' = run + 1
    /\ cstage' = "start"
    /\ UNCHANGED <<args, cidx, files_combined, output_files, log>>
    /\ UNCHANGED <<fsVars, chunkVars, loadVars, mergeVars, pipeVars>>

\* lines 26-36: no files, or the start of the first pass
MergeStart ==
    /\ mpc = "start"
    /\ IF files = <<>>
       THEN /\ mpc' = "returned"
            /\ combined' = Returned(TRUE, NoFrame, 0)
       ELSE /\ mpc' = "pass1"
            /\ UNCHANGED combined
    /\ all_columns' = {}
    /\ dfs' = <<>>
    /\ total_rows' = 0
    /\ mi' = 1
    /\ UNCHANGED <<files, output_file, fsVars, chunkVars, loadVars, combineVars, pipeVars>>

\* lines 38-43: the first pass reads one file
MergePass1 ==
    /\ mpc = "pass1"
    /\ mi <= Len(files)
    /\ all_columns' = Pass1Step(all_columns, fs, env, files[mi])
    /\ mi' = mi + 1
    /\ UNCHANGED <<files, output_file, dfs, total_rows, mpc, combined>>
    /\ UNCHANGED <<fsVars, chunkVars, loadVars, combineVars, pipeVars>>

\* line 45: the first pass is over
MergePass1Done ==
    /\ mpc = "pass1"
    /\ mi > Len(files)
    /\ mpc' = "pass2"
    /\ mi' = 1
    /\ UNCHANGED <<files, output_file, all_columns, dfs, total_rows, combined>>
    /\ UNCHANGED <<fsVars, chunkVars, loadVars, combineVars, pipeVars>>

\* lines 48-70: the second pass reads one file
MergePass2 ==
    /\ mpc = "pass2"
    /\ mi <= Len(files)
    /\ LET acc == Pass2Step([dfs |-> dfs, total_rows |-> total_rows],
                            all_columns, fs, env, files[mi])
       IN dfs' = acc.dfs /\ total_rows' = acc.total_rows
    /\ mi' = mi + 1
    /\ UNCHANGED <<files, output_file, all_columns, mpc, combined>>
    /\ UNCHANGED <<fsVars, chunkVars, loadVars, combineVars, pipeVars>>

\* lines 72-94: concatenate, write and return
MergeFinish ==
    /\ mpc = "pass2"
    /\ mi > Len(files)
    /\ LET R == Finish(fs, dirs, clock, env,
                       [dfs |-> dfs, total_rows |-> total_rows], output_file)
       IN /\ fs' = R.fs
          /\ dirs' = R.dirs
          /\ clock' = R.clock
          /\ mpc' = R.outcome
          /\ combined' = R.ret
    /\ UNCHANGED <<files, output_file, all_columns, dfs, total_rows, mi, env>>
    /\ UNCHANGED <<chunkVars, loadVars, combineVars, pipeVars>>

(***************************************************************************)
(* The inputs and the specifications.                                      *)
(***************************************************************************)
\* the dates drawn as inputs: first, middle and last days of every month
InputDays == {1, 15, 28, 29, 30, 31}

DateStrings(years) ==
    {s \in years \X (1..12) \X InputDays : Strptime(s) # ValueError}

\* the chunk sizes drawn as inputs: the valid ones, zero and a negative one
ChunkMonthsInputs == {0 - 1, 0} \cup (1..MaxChunkMonths)

ChunkIdle ==
    /\ start_date = <<BaseYear, 1, 1>>
    /\ end_date = <<BaseYear, 1, 1>>
    /\ chunk_months = 3
    /\ current = NoDate
    /\ date_ranges = <<>>
    /\ gpc = "off"

GroupNames == {"a", "b", "c"}

\* the lists of distinct names of GroupNames, of every length from 1
RECURSIVE NameLists(_)
NameLists(n) ==
    IF n = 0 THEN {<<>>}
    ELSE LET shorter == NameLists(n - 1)
         IN shorter \cup
            {Append(l, x) : l \in {k \in shorter : Len(k) = n - 1},
                            x \in GroupNames} 

InjectiveNameLists ==
    {l \in NameLists(Cardinality(GroupNames)) :
        /\ Len(l) >= 1
        /\ \A i, j \in 1..Len(l) : i # j => l[i] # l[j]}

\* a group of the name list l at index i, with parent p (None: no parent key)
GroupInput(l, i, p) ==
    LET g == [name |-> l[i], output_dir |-> <<"dir", l[i]>>,
              output_file |-> <<l[i], "history">>]
    IN IF p = None THEN g ELSE Put(g, "parent", p)

GroupLists ==
    UNION {{[i \in 1..Len(l) |-> GroupInput(l, i, ps[i])] :
                ps \in [1..Len(l) -> GroupNames \cup {None}]} :
           l \in InjectiveNameLists}

\* the domain names, each the list of its labels between dots
DomainNames ==
    << <<"x", "com">>, <<"y", "com">>, <<"z", "com">>, <<"w", "com">>, <<"x", "org">> >>

DomainInput(i, g, sg) ==
    LET d == [name |-> DomainNames[i], group |-> g]
    IN IF sg = None THEN d ELSE Put(d, "subgroup", sg)

DomainLists ==
    UNION {{[i \in 1..n |-> DomainInput(i, gs[i], sgs[i])] :
                gs \in [1..n -> GroupNames], sgs \in [1..n -> GroupNames \cup {None}]} :
           n \in 1..MaxDomains}

\* the date sections drawn as inputs: in order, equal, reversed
DateInputs ==
    {[start_date |-> <<BaseYear, 1, 31>>, end_date |-> <<BaseYear, 12, 31>>],
     [start_date |-> <<BaseYear, 6, 30>>, end_date |-> <<BaseYear, 6, 30>>],
     [start_date |-> <<BaseYear, 12, 31>>, end_date |-> <<BaseYear, 1, 31>>]}

\* one valid hierarchy: group a with subgroup b, and group c
PlainGroups ==
    <<GroupInput(<<"a", "b", "c">>, 1, None), GroupInput(<<"a", "b", "c">>, 2, "a"),
      GroupInput(<<"a", "b", "c">>, 3, None)>>

\* its domain lists: each domain in b (of a), in a, in c, or in the group
\* 'all', which the file does not configure
PlainDomainLists ==
    UNION {{[i \in 1..n |-> DomainInput(i, ch[i][1], ch[i][2])] :
                ch \in [1..n -> {<<"a", "b">>, <<"a", None>>, <<"c", None>>,
                                 <<"all", None>>}]} :
           n \in 1..(MaxDomains + 1)}

\* malformed files, one for each validation of the first steps
MalformedConfigs ==
    LET dates == [start_date |-> <<BaseYear, 1, 1>>, end_date |-> <<BaseYear, 6, 30>>]
        groups == <<GroupInput(<<"a">>, 1, None)>>
        domains == <<DomainInput(1, "a", None)>>
        ok == [dates |-> dates, domains |-> domains, groups |-> groups]
    IN {[dates |-> dates, domains |-> domains],
        [ok EXCEPT !.dates = [start_date |-> <<BaseYear, 1, 1>>]],
        [ok EXCEPT !.dates = [start_date |-> <<BaseYear, 2, 30>>,
                              end_date |-> <<BaseYear, 6, 30>>]],
        [ok EXCEPT !.domains = <<>>],
        [ok EXCEPT !.domains = <<[name |-> <<"x", "com">>]>>],
        [ok EXCEPT !.groups = <<>>],
        [ok EXCEPT !.groups = <<[name |-> "a", output_dir |-> <<"dir", "a">>]>>],
        Put(ok, "settings", [combine_all |-> FALSE]),
        NoFile}

\* every hierarchy with the first dates, the plain hierarchy with all dates
ConfigInputs ==
    {[dates |-> [start_date |-> <<BaseYear, 1, 31>>, end_date |-> <<BaseYear, 12, 31>>],
      domains |-> ds, groups |-> gs] : ds \in DomainLists, gs \in GroupLists}
    \cup {[dates |-> d, domains |-> ds, groups |-> PlainGroups] :
             d \in DateInputs, ds \in PlainDomainLists}
    \cup MalformedConfigs

LoadIdle ==
    /\ config_file = NoFile
    /\ config = EmptyMap
    /\ group_map = EmptyMap
    /\ lpc = "off"
    /\ lerr = None


\* the column names of the model
ColumnOrder ==
    <<"Date", "Time Spent (seconds)", "group", "subgroup", "Idle Seconds",
      "Productivity", "Number of People", "Activity">>

\* the orders in which a set of column names is iterated
SetOrders ==
    {ColumnOrder, [i \in 1..Len(ColumnOrder) |-> ColumnOrder[Len(ColumnOrder) + 1 - i]]}

\* the column lists of the input files
Schemas ==
    {<<"Date", "Time Spent (seconds)">>,
     <<"Date", "Time Spent (seconds)", "group">>,
     <<"Date", "Time Spent (seconds)", "subgroup">>,
     <<"Date", "Time Spent (seconds)", "group", "subgroup">>,
     <<"Date", "Time Spent (seconds)", "subgroup", "group">>,
     <<"Date", "Time Spent (seconds)", "Number of People", "Productivity", "Activity">>,
     <<"Date", "Idle Seconds">>}

\* the cell of the file `id`, row r, column col
Cell(id, r, col) == [file |-> id, row |-> r, col |-> col]

\* a file of the given columns with n rows of its own cells
RawTable(id, columns, n) ==
    DataFrame(columns,
              [r \in 1..n |-> [col \in {columns[i] : i \in 1..Len(columns)} |->
                                  Cell(id, r, col)]])

ChunkTags == <<"c1", "c2", "c3", "c4">>

\* the i-th raw file of a domain: {output_dir}/{base}_{chunk}.parquet
RawPath(dir, base, i) == Path(dir, <<base, ChunkTags[i]>>)

MergeInputPaths(n) == [i \in 1..n |-> RawPath(<<"data">>, "x", i)]

Environments(paths) ==
    [bad1 : SUBSET paths, bad2 : SUBSET paths, write_ok : BOOLEAN,
     rm_fail : {{}}, set_order : SetOrders]

\* the run in which no read, write or removal fails
Benign ==
    [bad1 |-> {}, bad2 |-> {}, write_ok |-> TRUE, rm_fail |-> {},
     set_order |-> ColumnOrder]

FsIdle ==
    /\ fs = EmptyMap
    /\ dirs = {}
    /\ clock = 0
    /\ env = Benign

MergeIdle ==
    /\ files = <<>>
    /\ output_file = Path(<<>>, <<>>)
    /\ all_columns = {}
    /\ dfs = <<>>
    /\ total_rows = 0
    /\ mi = 0
    /\ mpc = "off"
    /\ combined = NotReturned

\* the command line of main.py without any option
NoArgs ==
    [skip_subgroups |-> FALSE, skip_groups |-> FALSE, skip_all |-> FALSE,
     skip_fetch |-> FALSE, skip_combine |-> FALSE,
     domain |-> None, group |-> None, subgroup |-> None]

PipeIdle ==
    /\ ppc = "off"
    /\ fidx = 0
    /\ requests = <<>>
    /\ exit_code = None

CombineIdle ==
    /\ args = NoArgs
    /\ cstage = "off"
    /\ cidx = 0
    /\ files_combined = 0
    /\ output_files = <<>>
    /\ run = 0
    /\ log = <<>>

\* up to MaxFiles files of any schema, the i-th with i rows, in one directory;
\* any of them may fail to read in either pass
InitMerge ==
    /\ \E n \in 0..MaxFiles :
           /\ files = MergeInputPaths(n)
           /\ \E schema \in [1..n -> Schemas] :
                  fs = [p \in {files[i] : i \in 1..n} |->
                           LET i == CHOOSE k \in 1..n : files[k] = p
                           IN [table |-> RawTable(i, schema[i], i), mtime |-> i,
                               kind |-> "raw"]]
           /\ env \in Environments({files[i] : i \in 1..n})
           /\ clock = n + 1
    /\ dirs = {<<"data">>}
    /\ output_file = Path(<<"out">>, <<"x", "history">>)
    /\ all_columns = {}
    /\ dfs = <<>>
    /\ total_rows = 0
    /\ mi = 0
    /\ mpc = "start"
    /\ combined = NotReturned
    /\ ChunkIdle
    /\ LoadIdle
    /\ CombineIdle
    /\ PipeIdle

NextMerge == MergeStart \/ MergePass1 \/ MergePass1Done \/ MergePass2 \/ MergeFinish

SpecMerge == InitMerge /\ [][NextMerge]_vars

\* the output of a node: a directory shared by all nodes or one of its own,
\* and a file name of its own that begins with the node's name or with "x"
NodeDirs(name) == {<<"data">>, <<"data", name>>}
NodeFiles(name) == {<<name, "history">>, <<"x", name>>}

\* domain x.com in b, alone or with a domain directly in a: y.com, or x.org,
\* whose name has the same first label
CombineDomainLists ==
    {<<DomainInput(1, "a", "b")>>,
     <<DomainInput(1, "a", "b"), DomainInput(2, "a", None)>>,
     <<DomainInput(1, "a", "b"), DomainInput(5, "a", None)>>}

\* group a with subgroup b in one directory, x.com in b and y.com in a: with
\* a stage switched off in the settings, and with a configured group "all"
\* that holds a domain of its own
SettingsConfigs ==
    LET dates == [start_date |-> <<BaseYear, 1, 1>>, end_date |-> <<BaseYear, 6, 30>>]
        node(name) == [name |-> name, output_dir |-> <<"data">>,
                       output_file |-> <<name, "history">>]
        groups == <<node("a"), Put(node("b"), "parent", "a")>>
        domains == <<DomainInput(1, "a", "b"), DomainInput(2, "a", None)>>
        plain == [dates |-> dates, groups |-> groups, domains |-> domains]
    IN {Put(plain, "settings", [combine_by_group |-> FALSE]),
        Put(plain, "settings", [combine_all |-> FALSE]),
        [dates |-> dates, groups |-> Append(groups, node("all")),
         domains |-> Append(domains, DomainInput(3, "all", None))]}

\* group a with its subgroup b, and one of the domain lists
CombineConfigs ==
    {[dates |-> [start_date |-> <<BaseYear, 1, 1>>, end_date |-> <<BaseYear, 6, 30>>],
      groups |-> <<[name |-> "a", output_dir |-> da, output_file |-> fa],
                   [name |-> "b", parent |-> "a", output_dir |-> db,
                    output_file |-> fb]>>,
      domains |-> ds] :
        da \in NodeDirs("a"), fa \in NodeFiles("a"),
        db \in NodeDirs("b"), fb \in NodeFiles("b"), ds \in CombineDomainLists}
    \cup SettingsConfigs

\* the raw files of the domains: k[i] files of one row each for the i-th domain
RawFilesOf(domains, k) ==
    UNION {{[path |-> RawPath(domains[i].output_dir, DomainBase(domains[i]), j),
             table |-> RawTable(10 * i + j, <<"Date", "Time Spent (seconds)">>, 1),
             mtime |-> MaxRawFiles * i + j] : j \in 1..k[i]} :
           i \in 1..Len(domains)}

\* the runs of the combine phase: nothing fails, every write fails, or one
\* raw file fails to read in both passes
CombineEnvironments(paths) ==
    {Benign, [Benign EXCEPT !.write_ok = FALSE]}
    \cup {[Benign EXCEPT !.bad1 = {p}, !.bad2 = {p}] : p \in paths}

\* the configuration is loaded, the fetch phase has left raw files of the
\* domains in their directories, and combine_data is about to run
InitCombine ==
    /\ config_file \in CombineConfigs
    /\ config = load_config(config_file).config
    /\ group_map = load_config(config_file).group_map
    /\ lpc = "returned"
    /\ lerr = None
    /\ \E k \in [1..Len(config.domains) -> 0..MaxRawFiles] :
           LET raw == RawFilesOf(config.domains, k)
           IN /\ fs = [p \in {r.path : r \in raw} |->
                          LET r == CHOOSE q \in raw : q.path = p
                          IN [table |-> r.table, mtime |-> r.mtime, kind |-> "raw"]]
              /\ dirs = {r.path.dir : r \in raw}
              /\ env \in CombineEnvironments({r.path : r \in raw})
    /\ clock = MaxRawFiles * 3 + 1
    /\ args \in {[NoArgs EXCEPT !.skip_subgroups = s1, !.skip_groups = s2, !.skip_all = s3] :
                     s1 \in BOOLEAN, s2 \in BOOLEAN, s3 \in BOOLEAN}
    /\ cstage = "start"
    /\ cidx = 0
    /\ files_combined = 0
    /\ output_files = <<>>
    /\ run = 1
    /\ log = <<>>
    /\ ChunkIdle
    /\ MergeIdle
    /\ PipeIdle

NextCombine ==
    \/ CombineStart \/ CombineSubgroup \/ CombineGroup \/ CombineNextStage
    \/ CombineAll \/ CombineAgain

SpecCombine == InitCombine /\ [][NextCombine]_vars

\* one valid file with each of a few settings sections
PartialSettingsConfigs ==
    {Put([dates |-> [start_date |-> <<BaseYear, 1, 1>>, end_date |-> <<BaseYear, 6, 30>>],
          groups |-> PlainGroups,
          domains |-> <<DomainInput(1, "a", "b")>>], "settings", user) :
        user \in {EmptyMap,
                  [chunk_months |-> 6],
                  [detailed_data |-> FALSE, combine_all |-> FALSE],
                  [chunk_months |-> 1, detailed_data |-> FALSE,
                   combine_all |-> FALSE, combine_by_group |-> FALSE],
                  [combine_by_group |-> FALSE, api_key |-> "k"]}}

InitConfig ==
    /\ config_file \in ConfigInputs \cup SettingsConfigs \cup PartialSettingsConfigs
    /\ config = EmptyMap
    /\ group_map = EmptyMap
    /\ lpc = "open"
    /\ lerr = None
    /\ ChunkIdle
    /\ FsIdle
    /\ MergeIdle
    /\ CombineIdle
    /\ PipeIdle

NextConfig ==
    \/ LoadOpen \/ LoadSections \/ LoadDates \/ LoadDomains \/ LoadGroups \/ LoadParents
    \/ LoadDomainRefs \/ LoadInherit \/ LoadSettings \/ LoadAll \/ LoadIndex

SpecConfig == InitConfig /\ [][NextConfig]_vars

InitChunk ==
    /\ start_date \in DateStrings({BaseYear})
    /\ end_date \in DateStrings(BaseYear..(BaseYear + NumYears - 1))
    /\ chunk_months \in ChunkMonthsInputs
    /\ current = NoDate
    /\ date_ranges = <<>>
    /\ gpc = "idle"
    /\ LoadIdle
    /\ FsIdle
    /\ MergeIdle
    /\ CombineIdle
    /\ PipeIdle

NextChunk == GenStart \/ GenIterate \/ GenReturn \/ GenCap

SpecChunk == InitChunk /\ [][NextChunk]_vars

(***************************************************************************)
(* main.py: main and fetch_all_data; fetch_long_period.py:                 *)
(* fetch_domain_data.  The i-th chunk's file {base}_{start}_to_{end} is    *)
(* named by the base and the i-th chunk tag.                               *)
(***************************************************************************)
\* the loop of generate_date_ranges run to its end (or to the cap)
RECURSIVE GenLoop(_, _, _, _)
GenLoop(cur, end, months, acc) ==
    IF ~DateLT(cur, end) THEN [outcome |-> "returned", date_ranges |-> acc]
    ELSE IF Len(acc) >= MaxChunks THEN [outcome |-> "capped", date_ranges |-> acc]
    ELSE IF ChunkEnd(cur, end, months) = ValueError
    THEN [outcome |-> "raised", date_ranges |-> acc]
    ELSE LET chunk_end == ChunkEnd(cur, end, months)
             longer == Append(acc, <<Strftime(cur), Strftime(chunk_end)>>)
         IN IF NextCurrent(chunk_end) = ValueError
            THEN [outcome |-> "raised", date_ranges |-> longer]
            ELSE GenLoop(NextCurrent(chunk_end), end, months, longer)

\* generate_date_ranges(start_date, end_date, chunk_months)
generate_date_ranges(start, end, months) ==
    IF Strptime(start) = ValueError \/ Strptime(end) = ValueError
    THEN [outcome |-> "raised", date_ranges |-> <<>>]
    ELSE GenLoop(Strptime(start), Strptime(end), months, <<>>)

\* domain.get(key) == value
GetIs(domain, key, value) == Has(domain, key) /\ domain[key] = value

\* main.py lines 42-78: the domains (by index) that the options select
DomainsToProcess(c, a) ==
    LET every == [i \in 1..Len(c.domains) |-> i]
    IN IF a.domain # None
       THEN LET hits == SelectSeq(every, LAMBDA i : c.domains[i].name = a.domain)
            IN IF hits = <<>> THEN <<>> ELSE <<Head(hits)>>
       ELSE IF a.group # None /\ a.subgroup # None
       THEN SelectSeq(every, LAMBDA i : /\ GetIs(c.domains[i], "group", a.group)
                                       /\ GetIs(c.domains[i], "subgroup", a.subgroup))
       ELSE IF a.group # None
       THEN SelectSeq(every, LAMBDA i : GetIs(c.domains[i], "group", a.group))
       ELSE IF a.subgroup # None
       THEN SelectSeq(every, LAMBDA i : GetIs(c.domains[i], "subgroup", a.subgroup))
       ELSE every

\* rescuetime_graphext.py lines 372-385: its parser knows neither --group nor
\* --subgroup and exits on a command line that holds one of them
ScriptAccepts(cmd) == cmd.group = None /\ cmd.subgroup = None

\* fetch_long_period.py lines 110-128: the command of the i-th chunk
Request(domain, ranges, i) ==
    [domain |-> domain.name, start |-> ranges[i][1], end |-> ranges[i][2],
     raw_output |-> RawPath(domain.output_dir, DomainBase(domain), i),
     group |-> IF Has(domain, "group") THEN domain.group ELSE None,
     subgroup |-> IF Has(domain, "subgroup") THEN domain.subgroup ELSE None]

\* the script run on one command (rescuetime_graphext.py): without the API
\* key it exits with 1 (lines 24-28), on an option it does not know with 2
\* (line 385), and otherwise it ends with 0 and has written raw_output when
\* the API returned rows (lines 165-176, 400-423)
ScriptRun(cmd, key, data) ==
    LET returncode == IF ~key THEN 1 ELSE IF ~ScriptAccepts(cmd) THEN 2 ELSE 0
    IN [cmd |-> cmd, returncode |-> returncode, saved |-> returncode = 0 /\ data]

\* fetch_long_period.py line 130: subprocess.run(cmd) has no check=True and
\* its result is dropped, so no return code raises CalledProcessError
CalledProcessError_Checked(done) == done.returncode # 0

CalledProcessError(done) == FALSE

\* the commands of one domain that are run: all of them, or those up to the
\* first that raises
CommandsRun(done) ==
    IF \E i \in 1..Len(done) : CalledProcessError(done[i])
    THEN SubSeq(done, 1, CHOOSE i \in 1..Len(done) :
                             /\ CalledProcessError(done[i])
                             /\ \A j \in 1..(i - 1) : ~CalledProcessError(done[j]))
    ELSE done

\* the files on storage after the commands of one domain: ok holds the chunks
\* whose command has saved its rows
Fetched(fsys, domain, k, ok, clk) ==
    [p \in DOMAIN fsys \cup {RawPath(domain.output_dir, DomainBase(domain), i) : i \in ok} |->
        IF \E i \in ok : p = RawPath(domain.output_dir, DomainBase(domain), i)
        THEN LET i == CHOOSE j \in ok :
                          p = RawPath(domain.output_dir, DomainBase(domain), j)
             IN [table |-> RawTable(10 * k + i, <<"Date", "Time Spent (seconds)">>, 1),
                 mtime |-> clk + i - 1, kind |-> "raw"]
        ELSE fsys[p]]

\* main.py line 282: load_config has ended the process by sys.exit(1)
LoadRejected_Never == FALSE

LoadRejected == lpc = "exit"

\* load_config exits: the process ends with status 1
MainLoadExit ==
    /\ ppc = "load"
    /\ LoadRejected
    /\ ppc' = "exited"
    /\ exit_code' = 1
    /\ UNCHANGED <<fidx, requests, chunkVars, loadVars, fsVars, mergeVars, combineVars>>

\* main.py lines 284-299: load_config has returned, the phases begin
MainConfigured ==
    /\ ppc = "load"
    /\ lpc \in {"returned", "exit"}
    /\ ~LoadRejected
    /\ ppc' = IF args.skip_fetch THEN "combine" ELSE "fetch"
    /\ UNCHANGED <<fidx, requests, exit_code>>
    /\ UNCHANGED <<chunkVars, loadVars, fsVars, mergeVars, combineVars>>

\* fetch_all_data, lines 35-82: the domains are selected
FetchStart ==
    /\ ppc = "fetch"
    /\ IF /\ DomainsToProcess(config, args) = <<>>
          /\ (args.domain # None \/ args.group # None \/ args.subgroup # None)
       THEN ppc' = "exited" /\ exit_code' = 1 /\ UNCHANGED fidx
       ELSE ppc' = "fetching" /\ fidx' = 1 /\ UNCHANGED exit_code
    /\ UNCHANGED <<requests, chunkVars, loadVars, fsVars, mergeVars, combineVars>>

\* fetch_domain_data for the next domain: the directory, the chunks, and one
\* command for each chunk, whose outcome nobody looks at
FetchDomain ==
    /\ ppc = "fetching"
    /\ fidx <= Len(DomainsToProcess(config, args))
    /\ LET k == DomainsToProcess(config, args)[fidx]
           domain == config.domains[k]
           G == generate_date_ranges(config.dates.start_date, config.dates.end_date,
                                     config.settings.chunk_months)
           n == Len(G.date_ranges)
       IN IF G.outcome # "returned"
          THEN /\ ppc' = IF G.outcome = "raised" THEN "exited" ELSE "diverged"
               /\ exit_code' = IF G.outcome = "raised" THEN 1 ELSE None
               /\ dirs' = dirs \cup {domain.output_dir}
               /\ UNCHANGED <<fidx, requests, fs, clock>>
          ELSE \E key \in BOOLEAN, data \in SUBSET (1..n) :
                 LET done == [i \in 1..n |->
                                 ScriptRun(Request(domain, G.date_ranges, i), key, i \in data)]
                     ran == CommandsRun(done)
                     ok == {i \in 1..Len(ran) : ran[i].saved}
                 IN /\ requests' = requests \o ran
                    /\ dirs' = dirs \cup {domain.output_dir}
                    /\ fs' = Fetched(fs, domain, k, ok, clock)
                    /\ clock' = clock + n
                    /\ IF Len(ran) < n \/ (n > 0 /\ CalledProcessError(ran[n]))
                       THEN ppc' = "exited" /\ exit_code' = 1 /\ UNCHANGED fidx
                       ELSE fidx' = fidx + 1 /\ UNCHANGED <<ppc, exit_code>>
    /\ UNCHANGED <<env, chunkVars, loadVars, mergeVars, combineVars>>

\* fetch_all_data, lines 90-93: every domain is fetched
FetchDone ==
    /\ ppc = "fetching"
    /\ fidx > Len(DomainsToProcess(config, args))
    /\ ppc' = "combine"
    /\ UNCHANGED <<fidx, requests, exit_code>>
    /\ UNCHANGED <<chunkVars, loadVars, fsVars, mergeVars, combineVars>>

\* main.py lines 301-309: the combine phase begins, or the run is complete
MainCombine ==
    /\ ppc = "combine"
    /\ IF args.skip_combine
       THEN ppc' = "complete" /\ exit_code' = 0 /\ UNCHANGED <<cstage, run>>
       ELSE ppc' = "combining" /\ cstage' = "start" /\ run' = 1 /\ UNCHANGED exit_code
    /\ UNCHANGED <<fidx, requests, args, cidx, files_combined, output_files, log>>
    /\ UNCHANGED <<chunkVars, loadVars, fsVars, mergeVars>>

\* main.py lines 306-309: combine_data has returned
MainComplete ==
    /\ ppc = "combining"
    /\ cstage = "done"
    /\ ppc' = "complete"
    /\ exit_code' = 0
    /\ UNCHANGED <<fidx, requests, chunkVars, loadVars, fsVars, mergeVars, combineVars>>

\* an exception has left combine_data: the process ends with a traceback
MainCombineRaised ==
    /\ ppc = "combining"
    /\ cstage = "raised"
    /\ ppc' = "exited"
    /\ exit_code' = 1
    /\ UNCHANGED <<fidx, requests, chunkVars, loadVars, fsVars, mergeVars, combineVars>>

\* what earlier runs have left on storage: a raw file and an aggregate
OldStorage ==
    (RawPath(<<"data">>, "x", 1) :>
         [table |-> RawTable(1, <<"Date", "Time Spent (seconds)">>, 1), mtime |-> 1,
          kind |-> "raw"])
    @@ (Path(<<"data">>, <<"b", "history">>) :>
         [table |-> RawTable(2, <<"Date", "Time Spent (seconds)">>, 1), mtime |-> 2,
          kind |-> "combined"])

OldDirs == {<<"data">>}

\* files whose domains refer to no node, to a node of another parent, or
\* whose node refers to no parent
BrokenRefConfigs ==
    LET dates == [start_date |-> <<BaseYear, 1, 1>>, end_date |-> <<BaseYear, 6, 30>>]
    IN {[dates |-> dates, groups |-> PlainGroups, domains |-> <<DomainInput(1, "zz", None)>>],
        [dates |-> dates, groups |-> PlainGroups, domains |-> <<DomainInput(1, "c", "b")>>],
        [dates |-> dates, groups |-> <<GroupInput(<<"a">>, 1, "zz")>>,
         domains |-> <<DomainInput(1, "a", None)>>]}

PipelineConfigs == MalformedConfigs \cup BrokenRefConfigs \cup SettingsConfigs

\* main starts: the options are parsed and load_config is about to run
InitPipeline ==
    /\ config_file \in PipelineConfigs
    /\ config = EmptyMap
    /\ group_map = EmptyMap
    /\ lpc = "open"
    /\ lerr = None
    /\ fs = OldStorage
    /\ dirs = OldDirs
    /\ clock = 3
    /\ env \in {Benign, [Benign EXCEPT !.write_ok = FALSE]}
    /\ args \in {[NoArgs EXCEPT !.skip_fetch = s1, !.skip_combine = s2, !.group = g] :
                     s1 \in BOOLEAN, s2 \in BOOLEAN, g \in {None, "a", "zz"}}
    /\ cstage = "off"
    /\ cidx = 0
    /\ files_combined = 0
    /\ output_files = <<>>
    /\ run = 0
    /\ log = <<>>
    /\ ppc = "load"
    /\ fidx = 0
    /\ requests = <<>>
    /\ exit_code = None
    /\ ChunkIdle
    /\ MergeIdle

NextPipeline ==
    \/ NextConfig
    \/ MainLoadExit \/ MainConfigured \/ FetchStart \/ FetchDomain \/ FetchDone
    \/ MainCombine \/ MainComplete \/ MainCombineRaised
    \/ CombineStart \/ CombineSubgroup \/ CombineGroup \/ CombineNextStage \/ CombineAll

SpecPipeline == InitPipeline /\ [][NextPipeline]_vars

(***************************************************************************)
(* Claims about generate_date_ranges.                                      *)
(***************************************************************************)
ChunkStart(i) == Strptime(date_ranges[i][1])
ChunkStop(i) == Strptime(date_ranges[i][2])

\* C1: for start_date <= end_date and chunk_months >= 1 the returned chunks,
\* in order, reconstruct [start_date, end_date]: the first chunk starts at
\* start_date, the last ends at end_date, and every chunk starts on the day
\* after the previous chunk's end (no gap, no overlap).
C1_ChunksReconstructInterval ==
    (/\ gpc = "returned"
     /\ chunk_months >= 1
     /\ DateLE(Strptime(start_date), Strptime(end_date)))
    => /\ Len(date_ranges) >= 1
       /\ date_ranges[1][1] = start_date
       /\ date_ranges[Len(date_ranges)][2] = end_date
       /\ \A i \in 1..Len(date_ranges) :
              ToOrdinal(ChunkStart(i)) <= ToOrdinal(ChunkStop(i))
       /\ \A i \in 1..(Len(date_ranges) - 1) :
              ToOrdinal(ChunkStart(i + 1)) = ToOrdinal(ChunkStop(i)) + 1

\* C9: with start_date = end_date and chunk_months >= 1 the result is exactly
\* the one chunk (start_date, end_date).
C9_SingleDayYieldsOneChunk ==
    (gpc = "returned" /\ start_date = end_date /\ chunk_months >= 1)
    => date_ranges = << <<start_date, end_date>> >>

\* C10: with chunk_months <= 0 the call is rejected before any chunk is
\* emitted: it neither enters the loop's body, nor returns a list, nor runs on
\* without end, and no emitted chunk ends before it starts.
C10_NonPositiveChunkMonthsRejected ==
    chunk_months <= 0
    => /\ date_ranges = <<>>
       /\ gpc \notin {"returned", "capped"}
       /\ \A i \in 1..Len(date_ranges) : DateLE(ChunkStart(i), ChunkStop(i))

\* the number of a calendar month, counted from year 0
MonthIndex(dt) == dt.year * 12 + dt.month - 1

\* the number of days of the month: from its first day to the next month's
MonthLength(y, m) ==
    LET next == IF m = 12 THEN [year |-> y + 1, month |-> 1, day |-> 1]
                ELSE [year |-> y, month |-> m + 1, day |-> 1]
    IN ToOrdinal(next) - ToOrdinal([year |-> y, month |-> m, day |-> 1])

\* C11: for the start date d, the cursor of the first iteration, and every n
\* from 1 to MaxAddedMonths, add_months(d, n) is a date of the calendar month n months after d's month
\* (years roll over) whose day is min(d.day, last day of that month); and with
\* start_date 2023-01-31 and chunk_months 1 the first chunk ends on 2023-02-28
\* when end_date is on or after that day.
C11_MonthEndClamp ==
    /\ (gpc = "loop" /\ date_ranges = <<>>) =>
           \A n \in 1..MaxAddedMonths :
               LET r == add_months(current, n)
               IN /\ r # ValueError
                  /\ MonthIndex(r) = MonthIndex(current) + n
                  /\ r.day = Min2(current.day, MonthLength(r.year, r.month))
    /\ (/\ start_date = <<2023, 1, 31>>
        /\ chunk_months = 1
        /\ Len(date_ranges) >= 1
        /\ DateLE(MkDate(2023, 2, 28), Strptime(end_date)))
       => date_ranges[1][2] = <<2023, 2, 28>>

\* the first chunk of 2023-01-31 by one month is emitted, clamped to February
C11_Witness ==
    /\ start_date = <<2023, 1, 31>>
    /\ chunk_months = 1
    /\ Len(date_ranges) >= 1
    /\ date_ranges[1] = << <<2023, 1, 31>>, <<2023, 2, 28>> >>
    /\ gpc = "loop"

\* the date n calendar months after d: the same day, or the month's last one
MonthsLater(d, n) ==
    LET index == MonthIndex(d) + n
        y == index \div 12
        m == (index % 12) + 1
    IN [year |-> y, month |-> m, day |-> Min2(d.day, MonthLength(y, m))]

\* C12: with chunk_months >= 1 every emitted chunk ends not later than
\* chunk_months calendar months after its start and not later than end_date,
\* and every chunk but the last one emitted ends exactly chunk_months calendar
\* months after its start.
C12_ChunkLength ==
    chunk_months >= 1 =>
        \A i \in 1..Len(date_ranges) :
            /\ DateLE(ChunkStop(i), MonthsLater(ChunkStart(i), chunk_months))
            /\ DateLE(ChunkStop(i), Strptime(end_date))
            /\ i < Len(date_ranges) =>
                   ChunkStop(i) = MonthsLater(ChunkStart(i), chunk_months)

\* a list of several chunks is returned whose last chunk is cut at end_date
C12_Witness ==
    /\ gpc = "returned"
    /\ chunk_months >= 2
    /\ Len(date_ranges) >= 2
    /\ date_ranges[Len(date_ranges)][2] = end_date
    /\ DateLT(Strptime(end_date),
              MonthsLater(ChunkStart(Len(date_ranges)), chunk_months))

\* C30: with chunk_months >= 1 every emitted chunk starts on or before its
\* end, starts and ends within [start_date, end_date], and starts strictly
\* after the end of the chunk emitted before it.
C30_ChunksOrderedDisjoint ==
    chunk_months >= 1 =>
        /\ \A i \in 1..Len(date_ranges) :
               /\ DateLE(ChunkStart(i), ChunkStop(i))
               /\ DateLE(Strptime(start_date), ChunkStart(i))
               /\ DateLE(ChunkStop(i), Strptime(end_date))
        /\ \A i \in 1..(Len(date_ranges) - 1) :
               ToOrdinal(ChunkStop(i)) < ToOrdinal(ChunkStart(i + 1))

\* a list of three chunks or more is returned
C30_Witness ==
    /\ gpc = "returned"
    /\ chunk_months >= 1
    /\ Len(date_ranges) >= 3

\* the call has ended by returning its list
Terminated == gpc = "returned"

\* C29: with start_date <= end_date and chunk_months >= 1 the call returns:
\* the loop neither raises nor runs into the cap, after each emitted chunk the
\* cursor is strictly later than that chunk's end, and the list is never
\* longer than the number of calendar months from start_date to end_date.
C29_LoopAdvances ==
    (/\ chunk_months >= 1
     /\ gpc \notin {"idle", "off"}
     /\ DateLE(Strptime(start_date), Strptime(end_date)))
    => /\ gpc \in {"loop", "returned"}
       /\ Len(date_ranges) >= 1 => DateLT(ChunkStop(Len(date_ranges)), current)
       /\ Len(date_ranges) <=
              MonthIndex(Strptime(end_date)) - MonthIndex(Strptime(start_date)) + 1

\* a run over more than a year in chunks of one month has returned
C29_Witness ==
    /\ Terminated
    /\ chunk_months = 1
    /\ Len(date_ranges) >= 6
    /\ DateLT(Strptime(end_date), current)

(***************************************************************************)
(* Claims about load_config.                                               *)
(***************************************************************************)
\* the steps of load_config after the validation of the domains' references
Accepted == {"inherit", "settings", "all", "index", "returned"}

\* the group of the file that a name denotes: the last one of that name
FileNode(n) ==
    LET groups == config_file.groups
    IN groups[CHOOSE i \in 1..Len(groups) :
                 /\ groups[i].name = n
                 /\ \A j \in (i + 1)..Len(groups) : groups[j].name # n]

FileNodeNames == {config_file.groups[i].name : i \in 1..Len(config_file.groups)}

FileDomains == {config_file.domains[i] : i \in 1..Len(config_file.domains)}

WellFormedFile ==
    /\ config_file # NoFile
    /\ \A section \in {"dates", "domains", "groups"} : Has(config_file, section)
    /\ \A i \in 1..Len(config_file.domains) :
           Has(config_file.domains[i], "name") /\ Has(config_file.domains[i], "group")
    /\ \A i \in 1..Len(config_file.groups) : Has(config_file.groups[i], "name")

\* C5: in every configuration load_config returns, no node that has a parent
\* is referenced as the parent of a node (itself included): two levels only.
C5_HierarchyHasTwoLevels ==
    lpc = "returned"
    => \A i, j \in 1..Len(config.groups) :
           Has(config.groups[i], "parent")
           => ~(/\ Has(config.groups[j], "parent")
                /\ config.groups[j].parent = config.groups[i].name)

\* a domain of the file whose group or subgroup reference is broken
BrokenRef(domain) ==
    \/ domain.group \notin FileNodeNames
    \/ /\ Has(domain, "subgroup")
       /\ \/ domain.subgroup \notin FileNodeNames
          \/ ~Has(FileNode(domain.subgroup), "parent")
          \/ FileNode(domain.subgroup).parent # domain.group

\* C6: a file in which some domain's group is no configured node, or its
\* subgroup is no configured node, or the subgroup node has no parent or
\* another parent than the domain's group, never passes the validation and
\* load_config ends in sys.exit; so in every accepted configuration each
\* domain's subgroup is a child of the domain's group.
C6_BrokenDomainRefsRejected ==
    /\ (WellFormedFile /\ \E domain \in FileDomains : BrokenRef(domain))
       => lpc \notin Accepted
    /\ lpc = "returned"
       => \A i \in 1..Len(config.domains) :
              Has(config.domains[i], "subgroup")
              => LET sub == config.groups[config.group_map[config.domains[i].subgroup]]
                 IN Has(sub, "parent") /\ sub.parent = config.domains[i].group

\* a file whose only flaw is a subgroup under the wrong group was rejected
C6_Witness ==
    /\ lpc = "exit"
    /\ lerr = "subgroup is not a child of group"
    /\ \E domain \in FileDomains :
           /\ Has(domain, "subgroup")
           /\ domain.subgroup \in FileNodeNames
           /\ Has(FileNode(domain.subgroup), "parent")
           /\ FileNode(domain.subgroup).parent # domain.group

\* C7: after load_config every domain's output_dir and output_file are those
\* of its subgroup node if it declares a subgroup, else those of its group node.
C7_DomainInheritsOutput ==
    lpc = "returned"
    => \A i \in 1..Len(config.domains) :
           LET domain == config.domains[i]
               node == IF Has(domain, "subgroup") THEN FileNode(domain.subgroup)
                       ELSE FileNode(domain.group)
           IN /\ domain.output_dir = node.output_dir
              /\ domain.output_file = node.output_file

\* a returned configuration with a domain in a subgroup and one without
C7_Witness ==
    /\ lpc = "returned"
    /\ \E i, j \in 1..Len(config.domains) :
           /\ Has(config.domains[i], "subgroup")
           /\ config.domains[i].output_dir = FileNode(config.domains[i].subgroup).output_dir
           /\ ~Has(config.domains[j], "subgroup")

\* C8: every configuration load_config returns has start_date <= end_date.
C8_DatesAreOrdered ==
    lpc = "returned"
    => DateLE(Strptime(config.dates.start_date), Strptime(config.dates.end_date))

(***************************************************************************)
(* Claims about combine_parquet_files.                                     *)
(***************************************************************************)
FileSet == {files[i] : i \in 1..Len(files)}

\* the call is over, by a return or by an exception
MergeOver == mpc \in {"returned", "raised"}

\* every read of both passes and the write succeed
NothingFails == env.bad1 = {} /\ env.bad2 = {} /\ env.write_ok

RECURSIVE SumRows(_)
SumRows(todo) ==
    IF todo = <<>> THEN 0 ELSE Len(fs[Head(todo)].table.rows) + SumRows(Tail(todo))

\* the input file a row of the merged table comes from, and its row there
Origin(row) == RawPath(<<"data">>, "x", row["Date"].file)

\* two of the input files differ in their column sets
DifferentColumnSets ==
    \E f \in FileSet : \E g \in FileSet : Cols(fs[f].table) # Cols(fs[g].table)

\* C4: when the files differ in their column sets and every file is read, the
\* merged table's column set is the union of the files' column sets, a row of a file that lacked `group` (`subgroup`)
\* holds "unknown" there, a row of a file that had the column keeps its value,
\* and the merged row count is the sum of the files' row counts.
C4_SchemaUnion ==
    (MergeOver /\ DifferentColumnSets /\ NothingFails)
    => /\ mpc = "returned"
       /\ ~combined.is_none
       /\ Cols(combined.df) = UNION {Cols(fs[f].table) : f \in FileSet}
       /\ Len(combined.df.rows) = SumRows(files)
       /\ combined.total_rows = SumRows(files)
       /\ \A r \in 1..Len(combined.df.rows) :
              \A col \in {"group", "subgroup"} \cap Cols(combined.df) :
                  LET row == combined.df.rows[r]
                  IN IF col \in Cols(fs[Origin(row)].table)
                     THEN row[col] = Cell(row["Date"].file, row["Date"].row, col)
                     ELSE row[col] = StrLit("unknown")

\* every read of every file fails
EveryReadFails == FileSet \subseteq (env.bad1 \cap env.bad2)

\* C13: when the file list is empty, and when every file of the list fails to
\* read, combine_parquet_files does not raise, returns (None, 0) and writes
\* no output file.
C13_NothingToCombine ==
    (MergeOver /\ EveryReadFails)
    => /\ mpc = "returned"
       /\ combined = Returned(TRUE, NoFrame, 0)
       /\ output_file \notin DOMAIN fs

\* the call over several files, all unreadable, has returned
C13_Witness ==
    /\ mpc = "returned"
    /\ Len(files) >= 2
    /\ EveryReadFails
    /\ combined.is_none

\* the files that are read in both passes, in the order of the list
ReadInBothPasses == SelectSeq(files, LAMBDA f : f \notin (env.bad1 \cup env.bad2))

\* C14: when combine_parquet_files returns, a file whose read failed in the
\* first pass counts in neither pass: the merged table's row count and
\* total_rows are the sum of the row counts of the files read in both passes
\* (nothing is merged if there is none), and the merged columns are columns of
\* those files.
C14_PassesAgree ==
    (mpc = "returned" /\ files # <<>>)
    => IF ReadInBothPasses = <<>>
       THEN combined = Returned(TRUE, NoFrame, 0)
       ELSE /\ ~combined.is_none
            /\ Len(combined.df.rows) = SumRows(ReadInBothPasses)
            /\ combined.total_rows = SumRows(ReadInBothPasses)
            /\ Cols(combined.df) =
                   UNION {Cols(fs[ReadInBothPasses[i]].table) :
                          i \in 1..Len(ReadInBothPasses)}

(***************************************************************************)
(* Claims about combine_data and collect_domain_files.                     *)
(***************************************************************************)
RunEntries(r) == SelectSeq(log, LAMBDA entry : entry.run = r)

OutputsOf(r) == {RunEntries(r)[i].output : i \in 1..Len(RunEntries(r))}

InputsOf(r) ==
    UNION {{RunEntries(r)[i].all_files[j] : j \in 1..Len(RunEntries(r)[i].all_files)} :
           i \in 1..Len(RunEntries(r))}

\* C2: when the combine phase has run twice over the same raw files and no
\* read, write or removal failed, every
\* node aggregated in both runs got the same row count in the second run as
\* in the first, and no file written by the first run is among the input
\* files collected in the second run.
C2_CombineTwiceIsIdempotent ==
    (run = 2 /\ cstage = "done" /\ env = Benign) =>
        /\ \A i \in 1..Len(log) : \A j \in 1..Len(log) :
               (/\ log[i].run = 1
                /\ log[j].run = 2
                /\ log[i].node = log[j].node) =>
                   log[i].ret.total_rows = log[j].ret.total_rows
        /\ InputsOf(2) \cap OutputsOf(1) = {}

StagesOf(r) == {RunEntries(r)[i].stage : i \in 1..Len(RunEntries(r))}

\* C3: when a run of the combine phase has ended, no read, write or removal
\* failed and each of its stages (subgroups, groups, 'all') found input
\* files, every node aggregated in that
\* run has its output file on storage, holding the table that was written.
C3_OneOutputPerNodeSurvives ==
    (/\ cstage = "done"
     /\ env = Benign
     /\ StagesOf(run) = {"subgroups", "groups", "all"}) =>
        \A i \in 1..Len(log) :
            log[i].run = run =>
                /\ log[i].output \in DOMAIN fs
                /\ fs[log[i].output].table = log[i].ret.df

\* C15: a failed read of an input file or a failed write of an output during
\* the aggregation of a node does not end combine_data: no exception leaves
\* it, and it goes on with the nodes that remain.
C15_FailuresAreIsolated == cstage # "raised"

\* C16: in every file list that collect_domain_files returned to combine_data
\* each path occurs once, so no file's rows are merged twice into one
\* aggregate.
C16_CollectedFilesAreDistinct ==
    \A k \in 1..Len(log) :
        \A i \in 1..Len(log[k].all_files) : \A j \in 1..Len(log[k].all_files) :
            i # j => log[k].all_files[i] # log[k].all_files[j]

StageRank(stage) == CASE stage = "subgroups" -> 1 [] stage = "groups" -> 2 [] stage = "all" -> 3

\* C17: the nodes of one run are aggregated in the order subgroups, top-level
\* groups, 'all' last; a group is aggregated only with combine_by_group and
\* 'all' only with combine_all; the subgroup stage takes subgroups, the group
\* stage takes nodes without parent, and neither takes the node 'all'.
C17_StageOrder ==
    /\ \A i \in 1..Len(log) : \A j \in 1..Len(log) :
           (i < j /\ log[i].run = log[j].run) =>
               /\ StageRank(log[i].stage) <= StageRank(log[j].stage)
               /\ log[i].stage # "all"
    /\ \A i \in 1..Len(log) :
           /\ log[i].stage = "subgroups" =>
                  log[i].node # "all" /\ IsSubgroup(MapValue(config, log[i].node))
           /\ log[i].stage = "groups" =>
                  /\ log[i].node # "all"
                  /\ ~IsSubgroup(MapValue(config, log[i].node))
                  /\ config.settings.combine_by_group = TRUE
                  /\ ~args.skip_groups
           /\ log[i].stage = "all" =>
                  /\ log[i].node = "all"
                  /\ config.settings.combine_all = TRUE
                  /\ ~args.skip_all

\* a run over a configured group 'all' with a domain of its own has aggregated
\* a subgroup, a group and 'all'
C17_Witness ==
    /\ cstage = "done"
    /\ "all" \in DOMAIN config.domain_by_group
    /\ StagesOf(run) = {"subgroups", "groups", "all"}

(***************************************************************************)
(* Claims about the settings and the 'all' node of load_config.            *)
(***************************************************************************)
\* the node that group_map holds under the name 'all'
AllNode == config.groups[config.group_map["all"]]

\* C18: a configuration returned with combine_all true has a node 'all' in
\* group_map, which is a node of the groups list.  If the file configures no
\* 'all', it is the default node (rescuetime_data, all_domains_history,
\* no subgroup, no children) appended to the list; a configured 'all' keeps
\* its name, parent, output_dir and output_file and no node is added.
C18_AllNodeSynthesized ==
    (lpc = "returned" /\ config.settings.combine_all = TRUE)
    => /\ "all" \in DOMAIN config.group_map
       /\ config.group_map["all"] \in 1..Len(config.groups)
       /\ AllNode.name = "all"
       /\ IF "all" \notin FileNodeNames
          THEN /\ Len(config.groups) = Len(config_file.groups) + 1
               /\ config.group_map["all"] = Len(config.groups)
               /\ AllNode = [name |-> "all", output_dir |-> <<"rescuetime_data">>,
                             output_file |-> <<"all", "domains", "history">>,
                             is_subgroup |-> FALSE, subgroups |-> <<>>]
          ELSE /\ Len(config.groups) = Len(config_file.groups)
               /\ \A key \in DOMAIN FileNode("all") : AllNode[key] = FileNode("all")[key]

\* a file that configures no 'all' is returned with the default node
C18_Witness ==
    /\ lpc = "returned"
    /\ config.settings.combine_all = TRUE
    /\ "all" \notin FileNodeNames
    /\ AllNode.output_dir = <<"rescuetime_data">>
    /\ config.groups[Len(config.groups)].name = "all"

\* the settings section of the file, empty if there is none
UserSettings == IF Has(config_file, "settings") THEN config_file.settings ELSE EmptyMap

\* C19: in a returned configuration each of chunk_months, detailed_data,
\* combine_all, combine_by_group has the user's value if the file's settings
\* hold the key and else its default 3, true, true, true; every other key of
\* the user's settings is kept.
C19_SettingsPartialOverride ==
    lpc = "returned"
    => /\ \A key \in DOMAIN UserSettings : config.settings[key] = UserSettings[key]
       /\ "chunk_months" \notin DOMAIN UserSettings => config.settings.chunk_months = 3
       /\ \A key \in {"detailed_data", "combine_all", "combine_by_group"} :
              key \notin DOMAIN UserSettings => config.settings[key] = TRUE
       /\ DOMAIN config.settings =
              DOMAIN UserSettings
              \cup {"chunk_months", "detailed_data", "combine_all", "combine_by_group"}

\* a file that sets some of the four keys only is returned
C19_Witness ==
    /\ lpc = "returned"
    /\ DOMAIN UserSettings = {"detailed_data", "combine_all"}
    /\ config.settings.chunk_months = 3
    /\ config.settings.detailed_data = FALSE

(***************************************************************************)
(* Claims about main.                                                      *)
(***************************************************************************)
\* C20: when load_config rejects the configuration, the process ends with
\* exit status 1 and nothing else has happened: no fetch command was run, the
\* storage is what it was (no file deleted or written, no directory made),
\* and the combine phase has not begun.
C20_RejectedConfigDoesNoIO ==
    lpc = "exit"
    => /\ ppc \in {"load", "exited"}
       /\ ppc = "exited" => exit_code = 1
       /\ requests = <<>>
       /\ fs = OldStorage
       /\ dirs = OldDirs
       /\ cstage = "off"
       /\ log = <<>>

\* a file whose domain refers to no configured node has ended the run
C20_Witness ==
    /\ lpc = "exit"
    /\ ppc = "exited"
    /\ exit_code = 1
    /\ config_file \in BrokenRefConfigs
    /\ ~args.skip_fetch

\* the commands that fetch_domain_data builds for the first j selected
\* domains, chunk after chunk
RECURSIVE ExpectedCommands(_)
ExpectedCommands(j) ==
    IF j = 0 THEN <<>>
    ELSE LET domain == config.domains[DomainsToProcess(config, args)[j]]
             G == generate_date_ranges(config.dates.start_date, config.dates.end_date,
                                       config.settings.chunk_months)
         IN ExpectedCommands(j - 1)
                \o [i \in 1..Len(G.date_ranges) |-> Request(domain, G.date_ranges, i)]

Commands == [i \in 1..Len(requests) |-> requests[i].cmd]

FetchPhaseOver == ppc \in {"combine", "combining", "complete"} /\ ~args.skip_fetch

\* C21: a fetch command that fails does not end the run: the commands of
\* every remaining chunk and of every remaining selected domain are still run,
\* in order, and the run goes on to the combine phase; a run that has issued a
\* command ends early only by an exception of the combine phase.
C21_FailedFetchIsNotFatal ==
    /\ ppc = "fetching" => Commands = ExpectedCommands(fidx - 1)
    /\ FetchPhaseOver => Commands = ExpectedCommands(Len(DomainsToProcess(config, args)))
    /\ (requests # <<>> /\ ppc \in {"exited", "diverged"}) => cstage = "raised"

C21_Witness ==
    /\ ppc = "combining"
    /\ Len(requests) >= 4
    /\ \A i \in 1..Len(requests) : requests[i].returncode # 0 /\ ~requests[i].saved
    /\ \E i \in 1..Len(requests) : requests[i].cmd.domain # requests[1].cmd.domain

\* C22: for every selected domain and every chunk one command is run, in chunk
\* order, with arguments that rescuetime_graphext.py accepts, and it names the
\* file {output_dir}/{base}_{start}_to_{end}.parquet, which the pattern of
\* collect_domain_files for that domain matches.
C22_OneAcceptedFetchPerChunk ==
    FetchPhaseOver =>
        /\ Commands = ExpectedCommands(Len(DomainsToProcess(config, args)))
        /\ \A i \in 1..Len(requests) :
               /\ ScriptAccepts(requests[i].cmd)
               /\ \E k \in 1..Len(config.domains) :
                      LET domain == config.domains[k]
                          out == requests[i].cmd.raw_output
                      IN /\ domain.name = requests[i].cmd.domain
                         /\ out \in Glob([p \in {out} |-> None], domain.output_dir,
                                         DomainBase(domain))

\* the names of the configured groups whose parent is n, in declaration order
ChildrenOf(n) ==
    LET groups == config.groups
        hits == SelectSeq([i \in 1..Len(groups) |-> i],
                          LAMBDA i : Has(groups[i], "parent") /\ groups[i].parent = n)
    IN [k \in 1..Len(hits) |-> groups[hits[k]].name]

\* C23: in every configuration load_config returns, a node without parent has
\* as its subgroups exactly the names of the groups whose parent it is, and
\* is_subgroup is true exactly for the nodes with a parent, in whatever order
\* parent and children are declared.
C23_ChildrenListsExact ==
    lpc = "returned"
    => \A i \in 1..Len(config.groups) :
           LET group == config.groups[i]
           IN /\ group.is_subgroup = Has(group, "parent")
              /\ ~Has(group, "parent")
                 => Has(group, "subgroups") /\ group.subgroups = ChildrenOf(group.name)

\* the parent loop has been passed without its error
PastParents ==
    \/ lpc \in {"domain_refs", "inherit", "settings", "all", "index", "returned"}
    \/ /\ lpc = "exit"
       /\ lerr \in {"unknown group", "unknown subgroup", "subgroup is not a child of group"}

\* some group of the file names a parent that is the name of no group
UnknownParent ==
    \E i \in 1..Len(config_file.groups) :
        /\ Has(config_file.groups[i], "parent")
        /\ config_file.groups[i].parent \notin FileNodeNames

Occurrences(list, x) == Cardinality({k \in 1..Len(list) : list[k] = x})

\* C27: in every configuration load_config returns, each domain stands once in
\* domain_by_group, under its own group; it stands in domain_by_subgroup
\* exactly when it declares a subgroup, once, under that subgroup; a domain
\* under subgroup s stands under the group that is the parent of s; every list
\* keeps the order of the configuration.
C27_MembershipIndexesExact ==
    lpc = "returned"
    => LET domains == config.domains
           by_group == config.domain_by_group
           by_subgroup == config.domain_by_subgroup
       IN /\ \A i \in 1..Len(domains) :
                 /\ domains[i].group \in DOMAIN by_group
                 /\ \A g \in DOMAIN by_group :
                        Occurrences(by_group[g], i) = IF g = domains[i].group THEN 1 ELSE 0
                 /\ Has(domains[i], "subgroup") => domains[i].subgroup \in DOMAIN by_subgroup
                 /\ \A s \in DOMAIN by_subgroup :
                        Occurrences(by_subgroup[s], i) =
                            IF Has(domains[i], "subgroup") /\ s = domains[i].subgroup
                            THEN 1 ELSE 0
          /\ \A s \in DOMAIN by_subgroup :
                 LET node == config.groups[config.group_map[s]]
                 IN /\ Has(node, "parent")
                    /\ node.parent \in DOMAIN by_group
                    /\ \A k \in 1..Len(by_subgroup[s]) :
                           Occurrences(by_group[node.parent], by_subgroup[s][k]) = 1
          /\ \A list \in {by_group[g] : g \in DOMAIN by_group}
                         \cup {by_subgroup[s] : s \in DOMAIN by_subgroup} :
                 \A k \in 1..(Len(list) - 1) : list[k] < list[k + 1]

\* a returned configuration with two domains of one group, one of them in a
\* subgroup
C27_Witness ==
    /\ lpc = "returned"
    /\ \E g \in DOMAIN config.domain_by_group : Len(config.domain_by_group[g]) >= 2
    /\ \E s \in DOMAIN config.domain_by_subgroup : Len(config.domain_by_subgroup[s]) >= 1

\* the default that the policy gives to each column name of the model
PolicyDefault ==
    [col \in {ColumnOrder[i] : i \in 1..Len(ColumnOrder)} |->
        CASE col \in {"group", "subgroup"} -> StrLit("unknown")
          [] col \in {"Time Spent (seconds)", "Idle Seconds", "Productivity"} -> IntLit(0)
          [] col = "Number of People" -> IntLit(1)
          [] OTHER -> StrLit("")]

\* C25: in every frame of the second pass, a column the file lacked holds in
\* all of the file's rows the default of its name ("unknown" for group and
\* subgroup, else 0 for a name with "seconds" in any case or Productivity,
\* else 1 for Number of People, else the empty string), and a column the file
\* had holds the file's values.
C25_BackfillDefaults ==
    \A k \in 1..Len(dfs) :
        LET frame == dfs[k]
            file == Origin(frame.rows[1])
            table == fs[file].table
        IN /\ Len(frame.rows) = Len(table.rows)
           /\ Cols(table) \subseteq Cols(frame)
           /\ \A r \in 1..Len(frame.rows) : \A col \in Cols(frame) :
                  frame.rows[r][col] = IF col \in Cols(table) THEN table.rows[r][col]
                                       ELSE PolicyDefault[col]

\* a frame whose file lacked a column of each numeric and of the empty default
C25_Witness ==
    \E k \in 1..Len(dfs) :
        LET frame == dfs[k]
            table == fs[Origin(frame.rows[1])].table
        IN /\ Len(frame.rows) >= 2
           /\ {"Time Spent (seconds)", "Productivity", "Number of People", "Activity"}
                  \subseteq Cols(frame) \ Cols(table)
           /\ frame.rows[2]["Number of People"] = IntLit(1)
           /\ frame.rows[2]["Activity"] = StrLit("")

\* the domain lists that combine_data passes to collect_domain_files
CollectCalls ==
    {DomainObjects(config, config.domain_by_subgroup[s]) :
         s \in DOMAIN config.domain_by_subgroup}
    \cup {DomainObjects(config, config.domain_by_group[g]) :
              g \in DOMAIN config.domain_by_group}
    \cup {config.domains}

\* the domain list of the aggregation that a log entry records
EntryDomains(entry) ==
    CASE entry.stage = "subgroups" ->
             DomainObjects(config, config.domain_by_subgroup[entry.node])
      [] entry.stage = "groups" ->
             DomainObjects(config, config.domain_by_group[entry.node])
      [] OTHER -> config.domains

\* the output files of the domains of a list
OutputFiles(domains) == {DomainOutput(domains[i]) : i \in 1..Len(domains)}

\* C26: collect_domain_files, called on the storage as it is with one of the
\* domain lists of combine_data, removes every domain's output file whose
\* removal does not fail and no other file, and leaves the other files as they
\* are; the list it returns, scanned after all removals, holds none of the
\* removed output files; no list recorded by an aggregation holds an output
\* file of its domains.
C26_StaleOutputsRemovedFirst ==
    cstage \notin {"off", "raised"}
    => /\ \A domains \in CollectCalls : \A failing \in SUBSET OutputFiles(domains) :
              LET C == collect_domain_files(fs, dirs, [env EXCEPT !.rm_fail = failing],
                                            domains)
                  removed == (OutputFiles(domains) \ failing) \cap DOMAIN fs
              IN /\ DOMAIN C.fs = DOMAIN fs \ removed
                 /\ \A p \in DOMAIN C.fs : C.fs[p] = fs[p]
                 /\ \A k \in 1..Len(C.all_files) :
                        C.all_files[k] \in DOMAIN C.fs
                        /\ C.all_files[k] \notin OutputFiles(domains) \ failing
       /\ \A k \in 1..Len(log) :
              \A j \in 1..Len(log[k].all_files) :
                  log[k].all_files[j] \notin OutputFiles(EntryDomains(log[k]))

\* the second run aggregated a node whose domains' output file, written by the
\* first run, has a name that the pattern of one of these domains matches
C26_Witness ==
    \E k \in 1..Len(log) : \E i \in 1..Len(log) :
        /\ log[k].run = 2 /\ log[i].run = 1
        /\ log[i].output \in OutputFiles(EntryDomains(log[k]))
        /\ \E d \in 1..Len(EntryDomains(log[k])) :
               /\ log[i].output.dir = EntryDomains(log[k])[d].output_dir
               /\ log[i].output.name[1] = DomainBase(EntryDomains(log[k])[d])
        /\ \A j \in 1..Len(log[k].all_files) : log[k].all_files[j] # log[i].output

\* the files of a storage that the pattern of a domain matches, none if the
\* domain's directory does not exist
Matched(fsys, domain) ==
    IF domain.output_dir \in dirs
    THEN {p \in DOMAIN fsys : /\ p.dir = domain.output_dir
                              /\ Len(p.name) >= 2
                              /\ p.name[1] = DomainBase(domain)}
    ELSE {}

\* the number of files matched for the first n domains of a list
RECURSIVE MatchedBefore(_, _, _)
MatchedBefore(fsys, domains, n) ==
    IF n = 0 THEN 0
    ELSE MatchedBefore(fsys, domains, n - 1) + Cardinality(Matched(fsys, domains[n]))

\* C28: collect_domain_files, called on the storage as it is with one of the
\* domain lists of combine_data, returns, also when the directory of a domain
\* does not exist: the list holds nothing for such a domain, and for the
\* others, in the order of the domains, the files of each domain's pattern,
\* the most recently modified first.
C28_MissingDirectorySkipped ==
    cstage \notin {"off", "raised"}
    => \A domains \in CollectCalls :
           LET C == collect_domain_files(fs, dirs, env, domains)
               found == C.all_files
               from(i) == MatchedBefore(C.fs, domains, i - 1)
           IN /\ Len(found) = MatchedBefore(C.fs, domains, Len(domains))
              /\ \A i \in 1..Len(domains) :
                     LET n == Cardinality(Matched(C.fs, domains[i]))
                     IN /\ {found[from(i) + k] : k \in 1..n} = Matched(C.fs, domains[i])
                        /\ \A k \in 1..(n - 1) :
                               C.fs[found[from(i) + k]].mtime
                                   >= C.fs[found[from(i) + k + 1]].mtime

\* an aggregation over two domains or more found files although the directory
\* of one of its domains does not exist
C28_Witness ==
    \E k \in 1..Len(log) :
        /\ Len(EntryDomains(log[k])) >= 2
        /\ log[k].all_files # <<>>
        /\ \E d \in 1..Len(EntryDomains(log[k])) :
               EntryDomains(log[k])[d].output_dir \notin dirs

====
